---- MODULE Spec2Model ----
(***************************************************************************)
(* CAGRA graph search (raft::neighbors::experimental::cagra::detail):      *)
(* plan resolution (set_params) and the search driver (operator()) of the  *)
(* single-CTA and the multi-CTA variants, with the traversal kernel, the   *)
(* visited hash set and the top-k selection they call.                     *)
(***************************************************************************)
EXTENDS Integers, Sequences, FiniteSets, TLC

VARIABLES phase, params, plan, call, hashmap, grp, inter, out, num_executed,
          launch, htab, hthr, hlog, hbits, sv, ivf, blk

vars == <<phase, params, plan, call, hashmap, grp, inter, out, num_executed,
          launch, htab, hthr, hlog, hbits, sv, ivf, blk>>

-----------------------------------------------------------------------------
(* Bounds of the model.                                                    *)

\* number of dataset rows N
DatasetSize == 5
\* number of seed nodes per group (num_seeds)
NumSeeds == 1
\* threads that call the visited set concurrently
HashThreads == 2
\* calls each of them makes
HashCalls == 2

-----------------------------------------------------------------------------
(* Program constants.                                                      *)

\* this->itopk_size = 32 in multi_cta set_params
multi_cta_itopk_size == 32
\* num_parents = 1 in multi_cta set_params
multi_cta_num_parents == 1
\* raft::Pow2<32> AlignBytes, and the divisor of itopk_size / 32
AlignBytes == 32
\* RAFT_EXPECTS(result_buffer_size_32 <= 256, ...)
max_result_buffer_size == 256
min_block_size == 64
min_block_size_radix == 256
max_block_size == 1024
ulimit_smem_size_cta32 == 4096
max_itopk == 512
topk_ws_size == 3
\* sizeof(float), sizeof(INDEX_T), sizeof(DISTANCE_T), sizeof(uint32_t)
sizeof_u32 == 4

\* utils::get_max_value<uint32_t>(): the empty sentinel of the visited set and
\* the index of an unfilled slot. It is the 32-bit pattern of all ones
\* (4294967295), written here as the signed 32-bit integer with that pattern.
MaxU32 == -1
\* the distance of an unfilled slot: larger than every distance computed
MaxDistance == 1000000

Max(a, b) == IF a >= b THEN a ELSE b
Min(a, b) == IF a <= b THEN a ELSE b
Pow2(n) == 2 ^ n
roundUp32(x) == ((x + AlignBytes - 1) \div AlignBytes) * AlignBytes

-----------------------------------------------------------------------------
(* Plan resolution.                                                        *)

\* while (smem_size > ulimit_smem_size_cta32 / 32 * block_size) block_size *= 2;
\* (every quantity of the plans resolved here stays below 2^31, so the
\* uint32_t arithmetic of set_params does not wrap)
RECURSIVE grow_block_size_smem(_, _)
grow_block_size_smem(block_size, smem_size) ==
  IF smem_size > ((ulimit_smem_size_cta32 \div 32) * block_size)
  THEN grow_block_size_smem(block_size * 2, smem_size)
  ELSE block_size

\* while (block_size < max_block_size && work >= block_size * 2 &&
\*        num_cta <= (1024 / (block_size * 2)) * multiProcessorCount) block_size *= 2;
RECURSIVE grow_block_size_occupancy(_, _, _, _)
grow_block_size_occupancy(block_size, work, num_cta, sm_count) ==
  IF /\ block_size < max_block_size
     /\ work >= (block_size * 2)
     /\ num_cta <= (1024 \div (block_size * 2)) * sm_count
  THEN grow_block_size_occupancy((block_size * 2), work, num_cta, sm_count)
  ELSE block_size

\* while ((block_size < max_block_size) && (max_itopk / block_size > 4)) block_size *= 2;
RECURSIVE grow_block_size_radix(_)
grow_block_size_radix(block_size) ==
  IF block_size < max_block_size /\ (max_itopk \div block_size) > 4
  THEN grow_block_size_radix(block_size * 2)
  ELSE block_size

\* A default that never halves.
RECURSIVE auto_load_bit_length_fixed(_, _)
auto_load_bit_length_fixed(total_bit_length, load_bit_length) == load_bit_length

\* load_bit_length = 128; while (total_bit_length % load_bit_length) load_bit_length /= 2;
RECURSIVE auto_load_bit_length(_, _)
auto_load_bit_length(total_bit_length, load_bit_length) ==
  IF total_bit_length % load_bit_length # 0
  THEN auto_load_bit_length(total_bit_length, load_bit_length \div 2)
  ELSE load_bit_length

resolve_load_bit_length(p) ==
  IF p.load_bit_length = 0
  THEN auto_load_bit_length((p.dim * p.sizeof_data * 8), 128)
  ELSE p.load_bit_length

\* topk_by_radix_sort<MAX_ITOPK, BLOCK_SIZE>::smem_size (in 32-bit words)
topk_by_radix_sort_smem_size(MAX_ITOPK, BLOCK_SIZE) == MAX_ITOPK * 2 + 2048 + 8

\* hashmap::get_size(bitlen)
hashmap_get_size(bitlen) == Pow2(bitlen)

\* search_plan_impl's constructor: the search parameters become plan fields and
\* the visited-set table is sized for max_queries tables of 2^hash_bitlen slots.
search_plan_impl(p) ==
  [algo |-> p.algo, max_queries |-> p.max_queries, itopk_size |-> p.itopk_size,
   num_parents |-> p.num_parents, min_iterations |-> p.min_iterations,
   max_iterations |-> p.max_iterations, load_bit_length |-> p.load_bit_length,
   thread_block_size |-> p.thread_block_size, team_size |-> p.team_size,
   max_dim |-> p.max_dim, dim |-> p.dim, graph_degree |-> p.graph_degree,
   topk |-> p.topk, hash_bitlen |-> p.hash_bitlen,
   small_hash_bitlen |-> p.small_hash_bitlen, sizeof_data |-> p.sizeof_data,
   sm_count |-> p.sm_count,
   hashmap_size |-> sizeof_u32 * p.max_queries * hashmap_get_size(p.hash_bitlen)]

\* The thread block size both variants settle on, given the size it starts from.
block_size_auto(start, smem_size, work, num_cta, sm_count) ==
  grow_block_size_occupancy(grow_block_size_smem(start, smem_size), work, num_cta, sm_count)

\* A frontier check that lets one size too many through.
expects_itopk_size_lax(itopk_size) == itopk_size <= max_itopk + AlignBytes

\* RAFT_EXPECTS(itopk_size <= max_itopk, ...) of the single-CTA set_params
expects_itopk_size(itopk_size) == itopk_size <= max_itopk

\* RAFT_EXPECTS(result_buffer_size_32 <= 256, ...) of the multi-CTA set_params
expects_result_buffer_size(result_buffer_size_32) ==
  result_buffer_size_32 <= max_result_buffer_size

\* A block size check without the upper limit.
expects_block_size_nomax(block_size) ==
  IF block_size < min_block_size THEN "block_size_min" ELSE "none"

\* RAFT_EXPECTS(block_size >= min_block_size, ...); RAFT_EXPECTS(block_size <= max_block_size, ...):
\* the check that fails first, or "none"
expects_block_size(block_size) ==
  IF block_size < min_block_size THEN "block_size_min"
  ELSE IF block_size > max_block_size THEN "block_size_max"
  ELSE "none"

\* RAFT_EXPECTS(total_bit_length % load_bit_length == 0, ...);
\* RAFT_EXPECTS(load_bit_length >= 64, ...)
expects_load_bit_length(total_bit_length, load_bit_length) ==
  IF total_bit_length % load_bit_length # 0 THEN "load_bit_length_divisor"
  ELSE IF load_bit_length < 64 THEN "load_bit_length_min"
  ELSE "none"

\* multi_cta_search::search::set_params
multi_cta_set_params(base) ==
  LET itopk_size == multi_cta_itopk_size
      num_parents == multi_cta_num_parents
      num_cta_per_query == Max(num_parents, itopk_size \div AlignBytes)
      result_buffer_size == (itopk_size + num_parents * base.graph_degree)
      result_buffer_size_32 == roundUp32(result_buffer_size)
      smem_size == (sizeof_u32 * base.max_dim
                       + (sizeof_u32 + sizeof_u32) * result_buffer_size_32
                       + sizeof_u32 * num_parents + sizeof_u32)
      block_size ==
        IF base.thread_block_size = 0
        THEN block_size_auto(min_block_size, smem_size,
                             base.graph_degree * num_parents * base.team_size,
                             num_cta_per_query * base.max_queries, base.sm_count)
        ELSE base.thread_block_size
      total_bit_length == (base.dim * base.sizeof_data * 8)
      load_bit_length == resolve_load_bit_length(base)
      num_intermediate_results == (num_cta_per_query * itopk_size)
      error ==
        IF ~expects_result_buffer_size(result_buffer_size_32) THEN "result_buffer_size"
        ELSE IF expects_block_size(block_size) # "none" THEN expects_block_size(block_size)
        ELSE expects_load_bit_length(total_bit_length, load_bit_length)
  IN  [base EXCEPT !.itopk_size = itopk_size, !.num_parents = num_parents,
                   !.thread_block_size = IF error = "none" THEN block_size ELSE @,
                   !.load_bit_length = IF error = "none" THEN load_bit_length ELSE @]
      @@ [error |-> error,
          block_size |-> block_size,
          num_cta_per_query |-> num_cta_per_query,
          num_itopk_candidates |-> num_parents * base.graph_degree,
          result_buffer_size |-> result_buffer_size,
          smem_size |-> smem_size,
          intermediate_size |-> IF error = "none" THEN num_intermediate_results ELSE 0,
          hashmap_alloc |-> IF error = "none" THEN base.hashmap_size ELSE 0]

\* single_cta_search::search::set_params
single_cta_set_params(base) ==
  LET num_itopk_candidates == (base.num_parents * base.graph_degree)
      result_buffer_size == (base.itopk_size + num_itopk_candidates)
      result_buffer_size_32 == roundUp32(result_buffer_size)
      base_smem_size ==
        (sizeof_u32 * base.max_dim
            + (sizeof_u32 + sizeof_u32) * result_buffer_size_32
            + sizeof_u32 * hashmap_get_size(base.small_hash_bitlen)
            + sizeof_u32 * base.num_parents + sizeof_u32 * topk_ws_size + sizeof_u32)
      radix == num_itopk_candidates > 256
      MAX_ITOPK == IF base.itopk_size <= 256 THEN 256 ELSE 512
      tentative_smem_size ==
        IF radix
        THEN (base_smem_size
                 + topk_by_radix_sort_smem_size(MAX_ITOPK, max_block_size) * sizeof_u32)
        ELSE base_smem_size
      start == IF radix THEN grow_block_size_radix(min_block_size_radix)
               ELSE min_block_size
      block_size ==
        IF base.thread_block_size = 0
        THEN block_size_auto(start, tentative_smem_size,
                             base.graph_degree * base.num_parents * base.team_size,
                             base.max_queries, base.sm_count)
        ELSE base.thread_block_size
      total_bit_length == (base.dim * base.sizeof_data * 8)
      load_bit_length == resolve_load_bit_length(base)
      BLOCK_SIZE == IF block_size = 256 THEN 256 ELSE IF block_size = 512 THEN 512 ELSE 1024
      smem_size ==
        IF radix
        THEN (base_smem_size
                 + topk_by_radix_sort_smem_size(MAX_ITOPK, BLOCK_SIZE) * sizeof_u32)
        ELSE base_smem_size
      hashmap_size ==
        IF base.small_hash_bitlen = 0
        THEN sizeof_u32 * base.max_queries * hashmap_get_size(base.hash_bitlen)
        ELSE 0
      error ==
        IF ~expects_itopk_size(base.itopk_size) THEN "itopk_size"
        ELSE IF expects_block_size(block_size) # "none" THEN expects_block_size(block_size)
        ELSE expects_load_bit_length(total_bit_length, load_bit_length)
  IN  [base EXCEPT !.thread_block_size = IF error = "none" THEN block_size ELSE @,
                   !.load_bit_length = IF error = "none" THEN load_bit_length ELSE @,
                   !.hashmap_size = IF error = "none" THEN hashmap_size ELSE @]
      @@ [error |-> error,
          block_size |-> block_size,
          num_cta_per_query |-> 1,
          num_itopk_candidates |-> num_itopk_candidates,
          result_buffer_size |-> result_buffer_size,
          smem_size |-> smem_size,
          smem_topk |-> IF radix THEN [MAX_ITOPK |-> MAX_ITOPK, BLOCK_SIZE |-> BLOCK_SIZE]
                        ELSE [MAX_ITOPK |-> 0, BLOCK_SIZE |-> 0],
          intermediate_size |-> 0,
          hashmap_alloc |-> IF error = "none" THEN hashmap_size ELSE 0]

\* The constructor of either search struct: the base class, then set_params.
search_ctor(p) ==
  IF p.algo = "MULTI_CTA" THEN multi_cta_set_params(search_plan_impl(p))
  ELSE single_cta_set_params(search_plan_impl(p))

-----------------------------------------------------------------------------
(* Dataset, graph and queries: N points on a line, a fixed-degree graph.   *)

Nodes == 0 .. DatasetSize - 1
dataset(i) == (3 * i) % 7
queries(q) == 2 * q + 1
\* knn_graph[i * graph_degree + j]
knn_graph(i, j) == (i + 1 + 2 * j) % DatasetSize
\* the distance capability: squared L2 distance
compute_distance(q, i) == (queries(q) - dataset(i)) * (queries(q) - dataset(i))
\* seed s of group g of query q
seed_node(q, g, s) == (q + g + 2 * s) % DatasetSize

\* An unfilled frontier or result slot.
EmptyEntry == [dist |-> MaxDistance, id |-> MaxU32]
Entry(q, i) == [dist |-> compute_distance(q, i), id |-> i]

\* ascending by distance, ties by id
EntryLess(a, b) == a.dist < b.dist \/ (a.dist = b.dist /\ a.id < b.id)

RECURSIVE InsertSorted(_, _)
InsertSorted(seq, e) ==
  IF seq = <<>> THEN <<e>>
  ELSE IF EntryLess(e, Head(seq)) THEN <<e>> \o seq
  ELSE <<Head(seq)>> \o InsertSorted(Tail(seq), e)

RECURSIVE SortEntries(_)
SortEntries(seq) ==
  IF seq = <<>> THEN <<>> ELSE InsertSorted(SortEntries(Tail(seq)), Head(seq))

Take(seq, n) == SubSeq(seq, 1, Min(n, Len(seq)))

\* slot k of a buffer of fixed capacity whose filled prefix is seq
SlotOf(seq, k) == IF k <= Len(seq) THEN seq[k] ELSE EmptyEntry

IsSorted(seq) == \A k \in 1 .. Len(seq) - 1 : seq[k].dist <= seq[k + 1].dist

-----------------------------------------------------------------------------
(* The visited set: an open-addressed table of 2^bitlen slots.             *)

EmptyTable(bitlen) == [s \in 0 .. hashmap_get_size(bitlen) - 1 |-> MaxU32]
hash_index(key, bitlen) == key % hashmap_get_size(bitlen)

\* contains-or-insert with linear probing, starting at probe i of key's chain:
\* <<table after, TRUE iff key was absent>>. A full table reports absent.
RECURSIVE hashmap_insert_from(_, _, _, _)
hashmap_insert_from(table, bitlen, key, i) ==
  LET size == hashmap_get_size(bitlen)
      index == (hash_index(key, bitlen) + i) % size
  IN  IF i >= size THEN <<table, TRUE>>
      ELSE IF table[index] = MaxU32 THEN <<[table EXCEPT ![index] = key], TRUE>>
      ELSE IF table[index] = key THEN <<table, FALSE>>
      ELSE hashmap_insert_from(table, bitlen, key, i + 1)

hashmap_insert(table, bitlen, key) == hashmap_insert_from(table, bitlen, key, 0)

-----------------------------------------------------------------------------
(* Inputs.                                                                 *)

Algos == {"SINGLE_CTA", "MULTI_CTA"}
ItopkSizes == {64, 544}
NumParents == {1, 2}
PlanGraphDegrees == {2, 256}
PlanDims == {8}
Topks == {2, 33}
MaxQueriesSet == {1, 2}
\* <<min_iterations, max_iterations>>
Iterations == {<<0, 1>>, <<0, 6>>, <<4, 6>>, <<2, 1>>}
\* extents of the dataset and graph views a search is called with
DatasetDims == {8, 16}
GraphDegrees == {2}

ParamSets ==
  [algo : Algos, itopk_size : ItopkSizes, num_parents : NumParents,
   graph_degree : PlanGraphDegrees, dim : PlanDims, topk : Topks,
   max_queries : MaxQueriesSet, thread_block_size : {0}, load_bit_length : {0},
   min_iterations : {it[1] : it \in Iterations},
   max_iterations : {it[2] : it \in Iterations},
   hash_bitlen : {3}, small_hash_bitlen : {0}, team_size : {8}, max_dim : {128},
   sizeof_data : {4}, sm_count : {80}]

ValidParams == {p \in ParamSets : <<p.min_iterations, p.max_iterations>> \in Iterations}

NoLaunch == [launched |-> FALSE]

-----------------------------------------------------------------------------
(* State.                                                                  *)

Accepted == phase \notin {"new", "rejected"}
Queries == IF Accepted /\ phase # "resolved" THEN 0 .. call.num_queries - 1 ELSE {}
Groups == IF Accepted THEN 0 .. plan.num_cta_per_query - 1 ELSE {}
GroupIds == Queries \X Groups

Init ==
  /\ phase = "new"
  /\ params = <<>>
  /\ plan = <<>>
  /\ call = <<>>
  /\ hashmap = <<>>
  /\ grp = <<>>
  /\ inter = <<>>
  /\ out = <<>>
  /\ num_executed = <<>>
  /\ launch = NoLaunch
  /\ htab = <<>>
  /\ hthr = <<>>
  /\ hlog = <<>>
  /\ hbits = 0
  /\ sv = <<>>
  /\ ivf = <<>>
  /\ blk = <<>>

\* search(res, params, dim, graph_degree, topk): the constructor; a failed
\* RAFT_EXPECTS throws and no plan exists.
Construct ==
  /\ phase = "new"
  /\ \E p \in ValidParams :
       /\ params' = p
       /\ plan' = search_ctor(p)
       /\ phase' = IF search_ctor(p).error = "none" THEN "resolved" ELSE "rejected"
  /\ UNCHANGED <<call, hashmap, grp, inter, out, num_executed, launch, htab, hthr, hlog, hbits, sv, ivf, blk>>

-----------------------------------------------------------------------------
(* Kernel dispatch.                                                        *)

UnsetKernel == [set |-> FALSE]

\* SET_MC_KERNEL_2: the load type
set_kernel_load(k, load_bit_length) ==
  IF load_bit_length = 128 THEN k @@ [set |-> TRUE, LOAD_BITS |-> 128]
  ELSE IF load_bit_length = 64 THEN k @@ [set |-> TRUE, LOAD_BITS |-> 64]
  ELSE UnsetKernel

\* SET_MC_KERNEL_1 and SET_KERNEL_1B: block size and block count
set_kernel_block(k, block_size, load_bit_length) ==
  IF block_size = 64 THEN set_kernel_load(k @@ [BLOCK_SIZE |-> 64, BLOCK_COUNT |-> 16], load_bit_length)
  ELSE IF block_size = 128 THEN set_kernel_load(k @@ [BLOCK_SIZE |-> 128, BLOCK_COUNT |-> 8], load_bit_length)
  ELSE IF block_size = 256 THEN set_kernel_load(k @@ [BLOCK_SIZE |-> 256, BLOCK_COUNT |-> 4], load_bit_length)
  ELSE IF block_size = 512 THEN set_kernel_load(k @@ [BLOCK_SIZE |-> 512, BLOCK_COUNT |-> 2], load_bit_length)
  ELSE set_kernel_load(k @@ [BLOCK_SIZE |-> 1024, BLOCK_COUNT |-> 1], load_bit_length)

\* SET_KERNEL_1R
set_kernel_block_radix(k, block_size, load_bit_length) ==
  IF block_size = 256 THEN set_kernel_load(k @@ [BLOCK_SIZE |-> 256, BLOCK_COUNT |-> 4], load_bit_length)
  ELSE IF block_size = 512 THEN set_kernel_load(k @@ [BLOCK_SIZE |-> 512, BLOCK_COUNT |-> 2], load_bit_length)
  ELSE set_kernel_load(k @@ [BLOCK_SIZE |-> 1024, BLOCK_COUNT |-> 1], load_bit_length)

\* SET_MC_KERNEL
SET_MC_KERNEL(pl) ==
  LET block_size == pl.thread_block_size
      k(MAX_ELEMENTS) == [MAX_ELEMENTS |-> MAX_ELEMENTS]
  IN  IF pl.result_buffer_size <= 64 THEN set_kernel_block(k(64), block_size, pl.load_bit_length)
      ELSE IF pl.result_buffer_size <= 128 THEN set_kernel_block(k(128), block_size, pl.load_bit_length)
      ELSE IF pl.result_buffer_size <= 256 THEN set_kernel_block(k(256), block_size, pl.load_bit_length)
      ELSE UnsetKernel

\* SET_KERNEL: bitonic variants by candidate and itopk capacity
set_kernel_itopk(pl, max_candidates) ==
  LET k(MAX_ITOPK) == [MAX_ITOPK |-> MAX_ITOPK, MAX_CANDIDATES |-> max_candidates,
                       TOPK_BY_BITONIC_SORT |-> 1]
      b(MAX_ITOPK) == set_kernel_block(k(MAX_ITOPK), pl.thread_block_size, pl.load_bit_length)
  IN  IF pl.itopk_size <= 64 THEN b(64)
      ELSE IF pl.itopk_size <= 128 THEN b(128)
      ELSE IF pl.itopk_size <= 256 THEN b(256)
      ELSE IF pl.itopk_size <= 512 THEN b(512)
      ELSE UnsetKernel

\* SET_KERNEL
SET_KERNEL(pl) ==
  LET r(MAX_ITOPK) ==
        set_kernel_block_radix([MAX_ITOPK |-> MAX_ITOPK, MAX_CANDIDATES |-> 32,
                                TOPK_BY_BITONIC_SORT |-> 0],
                               pl.thread_block_size, pl.load_bit_length)
  IN  IF pl.num_itopk_candidates <= 64 THEN set_kernel_itopk(pl, 64)
      ELSE IF pl.num_itopk_candidates <= 128 THEN set_kernel_itopk(pl, 128)
      ELSE IF pl.num_itopk_candidates <= 256 THEN set_kernel_itopk(pl, 256)
      ELSE IF pl.itopk_size <= 256 THEN r(256)
      ELSE IF pl.itopk_size <= 512 THEN r(512)
      ELSE UnsetKernel

-----------------------------------------------------------------------------
(* The search call.                                                        *)

IdleGroup == [pc |-> "init", frontier |-> <<>>, parents |-> <<>>, cand |-> <<>>, iter |-> 0]

\* The arguments of kernel<<<grid_dims, block_dims, smem_size, stream>>>(...)
\* of the multi-CTA operator().
multi_cta_launch(pl, c) ==
  [launched |-> TRUE, kernel |-> SET_MC_KERNEL(pl),
   grid_x |-> pl.num_cta_per_query, grid_y |-> c.num_queries,
   block_size |-> pl.thread_block_size, smem_size |-> pl.smem_size,
   dataset_dim |-> c.dataset_dim, graph_degree |-> c.graph_degree,
   itopk_size |-> pl.itopk_size, num_parents |-> pl.num_parents,
   min_iteration |-> pl.min_iterations, max_iteration |-> pl.max_iterations,
   hash_bitlen |-> pl.hash_bitlen, top_k |-> c.topk]

\* A launch that hands the kernel the two iteration limits in the other order.
single_cta_launch_swapped(pl, c) ==
  [launched |-> TRUE, kernel |-> SET_KERNEL(pl),
   grid_x |-> 1, grid_y |-> c.num_queries,
   block_size |-> pl.thread_block_size, smem_size |-> pl.smem_size,
   dataset_dim |-> c.dataset_dim, graph_degree |-> c.graph_degree,
   itopk_size |-> pl.itopk_size, num_parents |-> pl.num_parents,
   min_iteration |-> pl.max_iterations, max_iteration |-> pl.min_iterations,
   hash_bitlen |-> pl.hash_bitlen, top_k |-> c.topk]

\* The arguments of kernel<<<block_dims, thread_dims, smem_size, stream>>>(...)
\* of the single-CTA operator().
single_cta_launch(pl, c) ==
  [launched |-> TRUE, kernel |-> SET_KERNEL(pl),
   grid_x |-> 1, grid_y |-> c.num_queries,
   block_size |-> pl.thread_block_size, smem_size |-> pl.smem_size,
   dataset_dim |-> c.dataset_dim, graph_degree |-> c.graph_degree,
   itopk_size |-> pl.itopk_size, num_parents |-> pl.num_parents,
   min_iteration |-> pl.min_iterations, max_iteration |-> pl.max_iterations,
   hash_bitlen |-> pl.hash_bitlen, top_k |-> c.topk]

\* The kernel runs with a dataset or graph shape other than the plan's.
ShapeMismatch == launch.dataset_dim # plan.dim \/ launch.graph_degree # plan.graph_degree

\* Entries of the intermediate buffers group (q, g) writes: [first, last + 1)
inter_first(q, g) == launch.itopk_size * (g + launch.grid_x * q)
inter_end(q, g) == inter_first(q, g) + launch.itopk_size
InBounds(q, g) == inter_end(q, g) <= plan.intermediate_size

\* An initialisation one thread short: the last element keeps its old value.
set_value_batch_short(old, ld, val, count, batch_size) ==
  LET written == {(tid % count) + ld * (tid \div count) : tid \in 0 .. count * batch_size - 2}
  IN  [a \in DOMAIN old \cup written |-> IF a \in written THEN val ELSE old[a]]

\* set_value_batch(dev_ptr, ld, val, count, batch_size): element elem_id + ld * batch_id
\* of every tid < count * batch_size becomes val.
set_value_batch(old, ld, val, count, batch_size) ==
  LET written == {(tid % count) + ld * (tid \div count) : tid \in 0 .. count * batch_size - 1}
  IN  [a \in DOMAIN old \cup written |-> IF a \in written THEN val ELSE old[a]]

\* table of query q in the flat hashmap buffer
table_of(flat, q, bitlen) ==
  [s \in 0 .. hashmap_get_size(bitlen) - 1 |-> flat[s + hashmap_get_size(bitlen) * q]]

\* operator() of the search struct, up to and including the kernel launch
SearchCall ==
  /\ phase = "resolved"
  /\ \E nq \in 1 .. plan.max_queries, dd \in DatasetDims, gd \in GraphDegrees :
       LET c == [num_queries |-> nq, dataset_dim |-> dd, graph_degree |-> gd,
                 topk |-> plan.topk]
           hash_size == hashmap_get_size(plan.hash_bitlen)
       IN  /\ call' = c
           /\ launch' = IF plan.algo = "MULTI_CTA" THEN multi_cta_launch(plan, c)
                        ELSE single_cta_launch(plan, c)
           /\ hashmap' = IF plan.algo = "MULTI_CTA"
                         THEN set_value_batch(<<>>, hash_size, MaxU32, hash_size, nq)
                         ELSE <<>>
           /\ grp' = [id \in (0 .. nq - 1) \X (0 .. plan.num_cta_per_query - 1) |-> IdleGroup]
           /\ out' = [q \in 0 .. nq - 1 |-> <<>>]
           /\ num_executed' = [q \in 0 .. nq - 1 |-> -1]
           /\ inter' = <<>>
  /\ phase' = "launched"
  /\ UNCHANGED <<params, plan, htab, hthr, hlog, hbits, sv, ivf, blk>>

-----------------------------------------------------------------------------
(* The traversal kernel: one group (thread block) per (query, group id).   *)

write_table(flat, q, bitlen, table) ==
  LET size == hashmap_get_size(bitlen)
      cells == {s + size * q : s \in 0 .. size - 1}
  IN  [a \in DOMAIN flat \cup cells |-> IF a \in cells THEN table[a - size * q] ELSE flat[a]]

\* In single-CTA mode the kernel itself resets its query's table.
table_at_start(q) ==
  IF plan.algo = "MULTI_CTA" THEN table_of(hashmap, q, launch.hash_bitlen)
  ELSE EmptyTable(launch.hash_bitlen)

\* Seeding: every seed not yet in the visited set enters the frontier.
RECURSIVE seed_frontier(_, _, _, _, _)
seed_frontier(q, g, s, table, frontier) ==
  IF s >= NumSeeds THEN <<table, frontier>>
  ELSE LET node == seed_node(q, g, s)
           r == hashmap_insert(table, launch.hash_bitlen, node)
       IN  seed_frontier(q, g, s + 1, r[1],
                         IF r[2] THEN InsertSorted(frontier, Entry(q, node) @@ [exp |-> FALSE])
                         ELSE frontier)

\* Init of the state machine
KernelInit(q, g) ==
  /\ phase = "launched"
  /\ grp[<<q, g>>].pc = "init"
  /\ LET r == seed_frontier(q, g, 0, table_at_start(q), <<>>)
     IN  /\ hashmap' = write_table(hashmap, q, launch.hash_bitlen, r[1])
         /\ grp' = [grp EXCEPT ![<<q, g>>] =
                      [@ EXCEPT !.pc = "pick", !.frontier = Take(r[2], launch.itopk_size)]]
  /\ UNCHANGED <<phase, params, plan, call, inter, out, num_executed, launch, htab, hthr, hlog, hbits, sv, ivf, blk>>

\* positions of the up to num_parents best frontier entries not yet expanded
RECURSIVE pickup_next_parents(_, _, _)
pickup_next_parents(frontier, k, n) ==
  IF n = 0 \/ k > Len(frontier) THEN <<>>
  ELSE IF frontier[k].exp THEN pickup_next_parents(frontier, k + 1, n)
  ELSE <<k>> \o pickup_next_parents(frontier, k + 1, n - 1)

\* The stop decision: the iteration budget is used up, or no parent is left
\* and min_iteration iterations were made.
stop_traversal(iter, parents, min_iteration, max_iteration) ==
  \/ iter >= max_iteration
  \/ (parents = <<>> /\ iter >= min_iteration)

\* Iterate, step a: select the parents, or decide to stop
PickParents(q, g) ==
  /\ phase = "launched"
  /\ grp[<<q, g>>].pc = "pick"
  /\ LET me == grp[<<q, g>>]
         pos == pickup_next_parents(me.frontier, 1, launch.num_parents)
     IN  IF stop_traversal(me.iter, pos, launch.min_iteration, launch.max_iteration)
         THEN grp' = [grp EXCEPT ![<<q, g>>] = [@ EXCEPT !.pc = "terminate"]]
         ELSE grp' = [grp EXCEPT ![<<q, g>>] =
                [@ EXCEPT !.pc = "visit",
                          !.parents = [k \in 1 .. Len(pos) |-> me.frontier[pos[k]].id],
                          !.frontier = [k \in 1 .. Len(me.frontier) |->
                                          IF \E j \in 1 .. Len(pos) : pos[j] = k
                                          THEN [me.frontier[k] EXCEPT !.exp = TRUE]
                                          ELSE me.frontier[k]],
                          !.cand = [k \in 1 .. Len(pos) * launch.graph_degree |->
                                      [st |-> "todo", dist |-> 0, id |-> 0]]]]
  /\ UNCHANGED <<phase, params, plan, call, hashmap, inter, out, num_executed, launch, htab, hthr, hlog, hbits, sv, ivf, blk>>

\* node of candidate slot k: neighbour (k - 1) % degree of parent (k - 1) / degree
cand_node(me, k) ==
  knn_graph(me.parents[((k - 1) \div launch.graph_degree) + 1], (k - 1) % launch.graph_degree)

\* Iterate, step b: one thread handles one neighbour of one parent
Visit(q, g, k) ==
  /\ phase = "launched"
  /\ grp[<<q, g>>].pc = "visit"
  /\ k \in 1 .. Len(grp[<<q, g>>].cand)
  /\ grp[<<q, g>>].cand[k].st = "todo"
  /\ LET me == grp[<<q, g>>]
         node == cand_node(me, k)
         r == hashmap_insert(table_of(hashmap, q, launch.hash_bitlen), launch.hash_bitlen, node)
     IN  /\ hashmap' = write_table(hashmap, q, launch.hash_bitlen, r[1])
         /\ grp' = [grp EXCEPT ![<<q, g>>].cand[k] =
                      IF r[2] THEN [st |-> "new", dist |-> compute_distance(q, node), id |-> node]
                      ELSE [st |-> "skip", dist |-> 0, id |-> 0]]
  /\ UNCHANGED <<phase, params, plan, call, inter, out, num_executed, launch, htab, hthr, hlog, hbits, sv, ivf, blk>>

RECURSIVE merge_candidates(_, _, _)
merge_candidates(frontier, cand, k) ==
  IF k > Len(cand) THEN frontier
  ELSE merge_candidates(
         IF cand[k].st = "new"
         THEN InsertSorted(frontier, [dist |-> cand[k].dist, id |-> cand[k].id, exp |-> FALSE])
         ELSE frontier,
         cand, k + 1)

\* Iterate, step c: after the barrier, merge the candidates into the frontier
Merge(q, g) ==
  /\ phase = "launched"
  /\ grp[<<q, g>>].pc = "visit"
  /\ \A k \in 1 .. Len(grp[<<q, g>>].cand) : grp[<<q, g>>].cand[k].st # "todo"
  /\ LET me == grp[<<q, g>>]
     IN  grp' = [grp EXCEPT ![<<q, g>>] =
                   [@ EXCEPT !.pc = "pick", !.iter = @ + 1, !.cand = <<>>, !.parents = <<>>,
                             !.frontier = Take(merge_candidates(me.frontier, me.cand, 1),
                                               launch.itopk_size)]]
  /\ UNCHANGED <<phase, params, plan, call, hashmap, inter, out, num_executed, launch, htab, hthr, hlog, hbits, sv, ivf, blk>>

strip(e) == [dist |-> e.dist, id |-> e.id]

\* the first n slots of a frontier, as (distance, index) pairs
result_slots(frontier, n) == [k \in 1 .. n |-> strip(SlotOf(frontier, k))]

\* entries block[1 .. Len(block)] stored at addresses first, first + 1, ...
write_inter(flat, first, block) ==
  LET cells == {first + k - 1 : k \in 1 .. Len(block)}
  IN  [a \in DOMAIN flat \cup cells |-> IF a \in cells THEN block[a - first + 1] ELSE flat[a]]

\* Terminate: the single-CTA kernel writes topk results, the multi-CTA kernel
\* its whole frontier to the intermediate buffers; both record the iterations.
Terminate(q, g) ==
  /\ phase = "launched"
  /\ grp[<<q, g>>].pc = "terminate"
  /\ LET me == grp[<<q, g>>]
     IN  /\ IF plan.algo = "MULTI_CTA"
            THEN /\ inter' = write_inter(inter, inter_first(q, g),
                                           result_slots(me.frontier, launch.itopk_size))
                 /\ out' = out
            ELSE /\ out' = [out EXCEPT ![q] = result_slots(me.frontier, launch.top_k)]
                 /\ inter' = inter
         /\ num_executed' = [num_executed EXCEPT ![q] = me.iter]
         /\ grp' = [grp EXCEPT ![<<q, g>>] = [@ EXCEPT !.pc = "exit"]]
  /\ UNCHANGED <<phase, params, plan, call, hashmap, launch, htab, hthr, hlog, hbits, sv, ivf, blk>>

AllExited == \A id \in DOMAIN grp : grp[id].pc = "exit"

\* The single-CTA kernel has written the results itself.
KernelComplete ==
  /\ phase = "launched"
  /\ plan.algo = "SINGLE_CTA"
  /\ AllExited
  /\ phase' = "done"
  /\ UNCHANGED <<params, plan, call, hashmap, grp, inter, out, num_executed, launch, htab, hthr, hlog, hbits, sv, ivf, blk>>

\* The launch can touch memory it does not own: a shape the buffers were not
\* sized for, or intermediate entries past the end of the allocation.
UndefinedLaunch ==
  \/ ShapeMismatch
  \/ (plan.algo = "MULTI_CTA" /\ \E id \in DOMAIN grp : ~InBounds(id[1], id[2]))

\* One outcome of such a launch: the device reports an illegal access and the
\* call fails without results.
KernelFault ==
  /\ phase = "launched"
  /\ UndefinedLaunch
  /\ phase' = "fault"
  /\ UNCHANGED <<params, plan, call, hashmap, grp, inter, out, num_executed, launch, htab, hthr, hlog, hbits, sv, ivf, blk>>

\* An entry that was never produced by the traversal.
WildEntry == [dist |-> 0, id |-> DatasetSize]
ReadModes == {"intact", "aliased", "wild"}

\* What a read of intermediate entry a returns. Inside the allocation it is
\* the entry stored there; past its end it is whatever that memory holds.
read_inter(a, mode) ==
  IF a < plan.intermediate_size THEN inter[a]
  ELSE IF mode = "intact" THEN inter[a]
  ELSE IF mode = "aliased" THEN inter[a % plan.intermediate_size]
  ELSE WildEntry

\* _cuann_find_topk(topK, sizeBatch, numElements, inputKeys, ldIK, inputVals, ldIV, ...):
\* row q of the output holds the topK smallest of the numElements entries of
\* input row q, sorted ascending.
cuann_find_topk(topK, q, numElements, ld, mode) ==
  LET pool == [k \in 1 .. numElements |-> read_inter(q * ld + k - 1, mode)]
  IN  Take(SortEntries(pool), topK)

\* operator() of the multi-CTA search, after the launch: the reduction runs
\* on the same stream, so after the kernel.
FindTopk ==
  /\ phase = "launched"
  /\ plan.algo = "MULTI_CTA"
  /\ AllExited
  /\ LET num_intermediate_results == plan.num_cta_per_query * plan.itopk_size
     IN  \E mode \in (IF UndefinedLaunch THEN ReadModes ELSE {"intact"}) :
           out' = [q \in DOMAIN out |->
                     cuann_find_topk(call.topk, q, num_intermediate_results,
                                     num_intermediate_results, mode)]
  /\ phase' = "done"
  /\ UNCHANGED <<params, plan, call, hashmap, grp, inter, num_executed, launch, htab, hthr, hlog, hbits, sv, ivf, blk>>

Next ==
  \/ Construct
  \/ SearchCall
  \/ \E id \in DOMAIN grp : KernelInit(id[1], id[2])
  \/ \E id \in DOMAIN grp : PickParents(id[1], id[2])
  \/ \E id \in DOMAIN grp : \E k \in 1 .. Len(grp[id].cand) : Visit(id[1], id[2], k)
  \/ \E id \in DOMAIN grp : Merge(id[1], id[2])
  \/ \E id \in DOMAIN grp : Terminate(id[1], id[2])
  \/ KernelComplete
  \/ KernelFault
  \/ FindTopk

Spec == Init /\ [][Next]_vars

-----------------------------------------------------------------------------
(* The visited set under concurrent calls: every probe is one atomicCAS.   *)

HashKeys == 0 .. 2
HashBitlens == {1, 2}
\* tables in the buffer (the batch of set_value_batch)
HashBatch == {0, 1}
\* the table the threads of one query work on
HashQuery == Cardinality(HashBatch) - 1
Threads == 1 .. HashThreads
IdleThread == [pc |-> "idle", q |-> 0, key |-> 0, i |-> 0, calls |-> 0]
NoCalls == [c \in {HashQuery} \X HashKeys |-> [absent |-> 0, present |-> 0, stored |-> FALSE]]

\* Before the first reset the buffer holds whatever the memory held.
InitHash ==
  /\ phase = "hash"
  /\ params = <<>> /\ plan = <<>> /\ call = <<>> /\ hashmap = <<>> /\ grp = <<>>
  /\ inter = <<>> /\ out = <<>> /\ num_executed = <<>> /\ launch = NoLaunch
  /\ hbits \in HashBitlens
  /\ \E stale \in HashKeys :
       htab = [a \in 0 .. hashmap_get_size(hbits) * Cardinality(HashBatch) - 1 |-> stale]
  /\ hthr = [t \in Threads |-> IdleThread]
  /\ hlog = [ready |-> FALSE, calls |-> NoCalls]
  /\ sv = <<>>
  /\ ivf = <<>>
  /\ blk = <<>>

\* The driver's table initialisation; no kernel runs while it does.
HashReset ==
  /\ phase = "hash"
  /\ \A t \in Threads : hthr[t].pc = "idle"
  /\ htab' = set_value_batch(htab, hashmap_get_size(hbits), MaxU32,
                             hashmap_get_size(hbits), Cardinality(HashBatch))
  /\ hlog' = [ready |-> TRUE, calls |-> NoCalls]
  /\ UNCHANGED <<phase, params, plan, call, hashmap, grp, inter, out, num_executed,
                 launch, hthr, hbits, sv, ivf, blk>>

\* A thread calls contains-or-insert(key) on table q.
HashBegin(t, q, key) ==
  /\ phase = "hash"
  /\ hlog.ready
  /\ hthr[t].pc = "idle"
  /\ hthr[t].calls < HashCalls
  /\ hthr' = [hthr EXCEPT ![t] = [pc |-> "probe", q |-> q, key |-> key, i |-> 0,
                                  calls |-> @.calls + 1]]
  /\ UNCHANGED <<phase, params, plan, call, hashmap, grp, inter, out, num_executed,
                 launch, htab, hlog, hbits, sv, ivf, blk>>

\* What one probe does: old = atomicCAS(&table[index], empty, key)
\* <<value stored at index afterwards, outcome>>
hashmap_probe(old, key, i, size) ==
  IF old = MaxU32 THEN <<key, "absent">>
  ELSE IF old = key THEN <<old, "present">>
  ELSE IF i + 1 >= size THEN <<old, "absent">>
  ELSE <<old, "next">>

log_call(log, q, key, outcome, stored) ==
  [log EXCEPT !.calls[<<q, key>>] =
     [absent |-> @.absent + (IF outcome = "absent" THEN 1 ELSE 0),
      present |-> @.present + (IF outcome = "present" THEN 1 ELSE 0),
      stored |-> @.stored \/ stored]]

HashProbe(t) ==
  /\ phase = "hash"
  /\ hthr[t].pc = "probe"
  /\ LET me == hthr[t]
         size == hashmap_get_size(hbits)
         index == ((hash_index(me.key, hbits) + me.i) % size) + size * me.q
         r == hashmap_probe(htab[index], me.key, me.i, size)
     IN  /\ htab' = [htab EXCEPT ![index] = r[1]]
         /\ IF r[2] = "next"
            THEN /\ hthr' = [hthr EXCEPT ![t].i = @ + 1]
                 /\ hlog' = hlog
            ELSE /\ hthr' = [hthr EXCEPT ![t].pc = "idle"]
                 /\ hlog' = log_call(hlog, me.q, me.key, r[2], htab[index] = MaxU32)
  /\ UNCHANGED <<phase, params, plan, call, hashmap, grp, inter, out, num_executed,
                 launch, hbits, sv, ivf, blk>>

NextHash ==
  \/ HashReset
  \/ \E t \in Threads, key \in HashKeys : HashBegin(t, HashQuery, key)
  \/ \E t \in Threads : HashProbe(t)

SpecHash == InitHash /\ [][NextHash]_vars

-----------------------------------------------------------------------------
(* Claims.                                                                 *)

\* The search has results to show, and ran with the shape it was planned for.
Returned == phase = "done" /\ ~ShapeMismatch
\* The search call is over, with results or with a device error.
Ended == phase \in {"done", "fault"} /\ ~ShapeMismatch

NoDuplicates(seq) ==
  \A j, k \in 1 .. Len(seq) : j # k => seq[j].id # seq[k].id

\* C1: for every accepted plan and every query of the batch, the search
\* leaves exactly topk (index, distance) pairs, distances non-decreasing.
CE_C1 ==
  Ended => \A q \in DOMAIN out : Len(out[q]) = call.topk /\ IsSorted(out[q])

\* C2: every index returned lies in [0, N) and no index is returned twice
\* for a query (topk not larger than the dataset).
CE_C2 ==
  (Returned /\ call.topk <= DatasetSize) =>
    \A q \in DOMAIN out :
      /\ \A k \in 1 .. Len(out[q]) : out[q][k].id \in Nodes
      /\ NoDuplicates(out[q])

\* C3: every returned distance is the distance between the query and the
\* dataset vector at the returned index.
CE_C3 ==
  (Returned /\ call.topk <= DatasetSize) =>
    \A q \in DOMAIN out : \A k \in 1 .. Len(out[q]) :
      /\ out[q][k].id \in Nodes
      /\ out[q][k].dist = compute_distance(q, out[q][k].id)

AllExpanded(frontier) == \A k \in 1 .. Len(frontier) : frontier[k].exp

\* C4: with min_iteration <= max_iteration the iteration count c of a query
\* satisfies min_iteration <= c <= max_iteration, a traversal that stopped with
\* c < max_iteration has c >= min_iteration and no unexpanded frontier entry
\* left, and c is the count recorded for the query.
T_C4 ==
  \A id \in DOMAIN grp :
    (grp[id].pc \in {"terminate", "exit"} /\ plan.min_iterations <= plan.max_iterations) =>
      LET c == grp[id].iter
      IN  /\ plan.min_iterations <= c
          /\ c <= plan.max_iterations
          /\ c < plan.max_iterations => AllExpanded(grp[id].frontier)
          /\ grp[id].pc = "exit" => num_executed[id[1]] = c

\* a query stopped early, after min_iteration and before max_iteration
W_C4 ==
  /\ phase = "done"
  /\ plan.min_iterations > 0
  /\ \E q \in DOMAIN num_executed :
       /\ num_executed[q] >= plan.min_iterations
       /\ num_executed[q] < plan.max_iterations
       /\ grp[<<q, 0>>].frontier # <<>>

\* The traversal of one group run by a single thread, slot after slot:
\* <<table, frontier, iterations>> when it stops.
RECURSIVE seq_visit(_, _, _, _, _)
seq_visit(q, parents, table, k, cand) ==
  IF k > Len(parents) * call.graph_degree THEN <<table, cand>>
  ELSE LET node == knn_graph(parents[((k - 1) \div call.graph_degree) + 1],
                             (k - 1) % call.graph_degree)
           r == hashmap_insert(table, plan.hash_bitlen, node)
       IN  seq_visit(q, parents, r[1], k + 1,
                     Append(cand, IF r[2] THEN [st |-> "new", dist |-> compute_distance(q, node),
                                                id |-> node]
                                  ELSE [st |-> "skip", dist |-> 0, id |-> 0]))

RECURSIVE seq_iterate(_, _, _, _)
seq_iterate(q, table, frontier, iter) ==
  LET pos == pickup_next_parents(frontier, 1, plan.num_parents)
  IN  IF stop_traversal(iter, pos, plan.min_iterations, plan.max_iterations)
      THEN <<table, frontier, iter>>
      ELSE LET parents == [k \in 1 .. Len(pos) |-> frontier[pos[k]].id]
               marked == [k \in 1 .. Len(frontier) |->
                            IF \E j \in 1 .. Len(pos) : pos[j] = k
                            THEN [frontier[k] EXCEPT !.exp = TRUE] ELSE frontier[k]]
               v == seq_visit(q, parents, table, 1, <<>>)
           IN  seq_iterate(q, v[1], Take(merge_candidates(marked, v[2], 1), plan.itopk_size),
                           iter + 1)

\* groups g, g + 1, ... of query q one after the other: the frontiers they
\* end with, each as itopk_size slots, concatenated, and the last count
RECURSIVE seq_groups(_, _, _, _, _)
seq_groups(q, g, table, pool, iter) ==
  IF g >= plan.num_cta_per_query THEN <<pool, iter>>
  ELSE LET s == seed_frontier(q, g, 0, table, <<>>)
           r == seq_iterate(q, s[1], Take(s[2], plan.itopk_size), 0)
       IN  seq_groups(q, g + 1, r[1], pool \o result_slots(r[2], plan.itopk_size), r[3])

seq_search(q) ==
  LET r == seq_groups(q, 0, EmptyTable(plan.hash_bitlen), <<>>, 0)
  IN  [out |-> IF plan.algo = "MULTI_CTA" THEN Take(SortEntries(r[1]), call.topk)
               ELSE [k \in 1 .. call.topk |-> SlotOf(r[1], k)],
       iterations |-> r[2]]

\* C5: the results of a batch are a function of its inputs: whatever the
\* interleaving, indices, distances and iteration counts are those of the
\* traversal run by one thread.
CE_C5 ==
  Returned => \A q \in DOMAIN out :
                /\ out[q] = seq_search(q).out
                /\ num_executed[q] = seq_search(q).iterations

\* C6: a search called with a dataset dimension or graph degree other than
\* the plan's launches no kernel.
CE_C6 ==
  (Accepted /\ phase # "resolved"
     /\ (call.dataset_dim # plan.dim \/ call.graph_degree # plan.graph_degree))
  => ~launch.launched

\* C7: for a batch of num_queries <= max_queries the intermediate buffers hold
\* num_queries x num_cta_per_query x itopk_size entries and the visited-set
\* buffer num_queries x 2^hash_bitlen, and no entry is written past their end.
CE_C7 ==
  (launch.launched /\ plan.algo = "MULTI_CTA") =>
    /\ plan.intermediate_size >= call.num_queries * plan.num_cta_per_query * plan.itopk_size
    /\ plan.hashmap_alloc >= call.num_queries * hashmap_get_size(plan.hash_bitlen)
    /\ \A a \in DOMAIN inter : a < plan.intermediate_size
    /\ \A a \in DOMAIN hashmap : a < plan.hashmap_alloc

\* C8: the multi-CTA grid has max(num_parents, itopk_size / 32) groups per
\* query, for the num_parents and itopk_size of the search parameters.
CE_C8 ==
  (Accepted /\ plan.algo = "MULTI_CTA") =>
    /\ plan.num_cta_per_query = Max(params.num_parents, params.itopk_size \div AlignBytes)
    /\ launch.launched => launch.grid_x = plan.num_cta_per_query

\* the entries the groups of query q wrote, group after group
RECURSIVE written_pool(_, _)
written_pool(q, g) ==
  IF g >= plan.num_cta_per_query THEN <<>>
  ELSE result_slots(grp[<<q, g>>].frontier, plan.itopk_size) \o written_pool(q, g + 1)

\* C9: the final reduction runs after every group has written, and gives
\* each query the topk smallest, ascending, of the entries its own groups wrote.
CE_C9 ==
  (Returned /\ plan.algo = "MULTI_CTA") =>
    /\ AllExited
    /\ \A q \in DOMAIN out : out[q] = Take(SortEntries(written_pool(q, 0)), call.topk)

InTable(q, key) ==
  \E s \in 0 .. hashmap_get_size(hbits) - 1 : htab[s + hashmap_get_size(hbits) * q] = key

-----------------------------------------------------------------------------
(* Plan resolution and kernel dispatch over a wider set of parameters:     *)
(* the constructor, then the kernel selection of the first search call.    *)

PlanItopkSizes == {32, 64, 512, 544}
PlanDegrees == {2, 128, 256, 8192}
PlanVectorDims == {1, 2, 8}
PlanTopks == {1, 33}
PlanBlockSizes == {0, 32, 64, 96, 2048}
PlanLoadBits == {0, 32, 64, 128, 256}

PlanParams ==
  [algo : Algos, itopk_size : PlanItopkSizes, num_parents : NumParents,
   graph_degree : PlanDegrees, dim : PlanVectorDims, topk : PlanTopks,
   max_queries : {1}, thread_block_size : PlanBlockSizes, load_bit_length : PlanLoadBits,
   min_iterations : {0}, max_iterations : {1},
   hash_bitlen : {3}, small_hash_bitlen : {0}, team_size : {8}, max_dim : {128},
   sizeof_data : {4}, sm_count : {80}]

PlanConstruct ==
  /\ phase = "new"
  /\ \E p \in PlanParams :
       /\ params' = p
       /\ plan' = search_ctor(p)
       /\ phase' = IF search_ctor(p).error = "none" THEN "resolved" ELSE "rejected"
  /\ UNCHANGED <<call, hashmap, grp, inter, out, num_executed, launch, htab, hthr, hlog, hbits, sv, ivf, blk>>

\* operator() up to the launch, called with the shape the plan was made for
PlanDispatch ==
  /\ phase = "resolved"
  /\ LET c == [num_queries |-> 1, dataset_dim |-> plan.dim,
               graph_degree |-> plan.graph_degree, topk |-> plan.topk]
     IN  /\ call' = c
         /\ launch' = IF plan.algo = "MULTI_CTA" THEN multi_cta_launch(plan, c)
                      ELSE single_cta_launch(plan, c)
  /\ phase' = "dispatched"
  /\ UNCHANGED <<params, plan, hashmap, grp, inter, out, num_executed, htab, hthr, hlog, hbits, sv, ivf, blk>>

NextPlan == PlanConstruct \/ PlanDispatch

SpecPlan == Init /\ [][NextPlan]_vars

total_bits(p) == p.dim * p.sizeof_data * 8

\* C11: for every parameter set that set_params accepts, the search call
\* selects a kernel, and the kernel's BLOCK_SIZE and load width are the
\* plan's thread_block_size and load_bit_length.
CE_C11 ==
  phase = "dispatched" =>
    /\ launch.kernel.set
    /\ launch.kernel.BLOCK_SIZE = plan.thread_block_size
    /\ launch.kernel.LOAD_BITS = plan.load_bit_length

\* C12: single-CTA plan resolution fails on the frontier size exactly when
\* itopk_size > 512, and then no buffer was sized and no kernel launched.
T_C12 ==
  (phase # "new" /\ params.algo = "SINGLE_CTA") =>
    /\ params.itopk_size > max_itopk =>
         /\ phase = "rejected" /\ plan.error = "itopk_size"
         /\ plan.hashmap_alloc = 0 /\ ~launch.launched
    /\ params.itopk_size <= max_itopk => plan.error # "itopk_size"

\* a frontier of 544 entries is refused; nothing else is wrong with the parameters
W_C12 ==
  /\ phase = "rejected" /\ params.algo = "SINGLE_CTA"
  /\ params.itopk_size > max_itopk
  /\ params.thread_block_size = 0 /\ params.load_bit_length = 0 /\ params.dim = 8

\* C13: multi-CTA plan resolution fails on the result buffer exactly when the
\* group's frontier size plus num_parents x graph_degree, rounded up to a
\* multiple of 32, exceeds 256; every accepted plan dispatches to a kernel of
\* capacity 64, 128 or 256, not smaller than the result buffer size.
CE_C13 ==
  (phase # "new" /\ params.algo = "MULTI_CTA") =>
    /\ plan.error = "result_buffer_size"
         <=> roundUp32(plan.itopk_size + plan.num_parents * plan.graph_degree)
               > max_result_buffer_size
    /\ phase = "dispatched" =>
         /\ launch.kernel.set
         /\ launch.kernel.MAX_ELEMENTS \in {64, 128, 256}
         /\ launch.kernel.MAX_ELEMENTS >= plan.result_buffer_size

\* C14: an accepted plan has thread_block_size in [64, 1024], the value that
\* was asked for or computed; a block size outside the range, given or
\* computed, makes the resolution fail.
T_C14 ==
  phase # "new" =>
    /\ (plan.block_size < min_block_size \/ plan.block_size > max_block_size)
         => phase = "rejected"
    /\ (params.thread_block_size # 0 => plan.block_size = params.thread_block_size)
    /\ phase # "rejected" =>
         /\ plan.thread_block_size = plan.block_size
         /\ min_block_size <= plan.thread_block_size
         /\ plan.thread_block_size <= max_block_size

\* the block size grew past 1024 on its own, and the plan was refused for that
W_C14 ==
  /\ phase = "rejected" /\ params.thread_block_size = 0
  /\ plan.block_size > max_block_size /\ plan.error = "block_size_max"

\* C15: with load_bit_length unset the plan gets 128 if 128 divides the bits
\* of a vector, else 64 if 64 does, else the resolution fails; a given
\* load_bit_length that does not divide them, or is below 64, is refused.
T_C15 ==
  phase # "new" =>
    LET total == total_bits(params)
        load_errors == {"load_bit_length_divisor", "load_bit_length_min"}
    IN  /\ (params.load_bit_length = 0 /\ total % 128 = 0) =>
             /\ plan.error \notin load_errors
             /\ phase # "rejected" => plan.load_bit_length = 128
        /\ (params.load_bit_length = 0 /\ total % 128 # 0 /\ total % 64 = 0) =>
             /\ plan.error \notin load_errors
             /\ phase # "rejected" => plan.load_bit_length = 64
        /\ (params.load_bit_length = 0 /\ total % 64 # 0) => phase = "rejected"
        /\ (params.load_bit_length # 0
              /\ (total % params.load_bit_length # 0 \/ params.load_bit_length < 64))
             => phase = "rejected"
        /\ (params.load_bit_length # 0 /\ phase # "rejected")
             => plan.load_bit_length = params.load_bit_length

\* a vector of 64 bits: the default falls back from 128 to 64
W_C15 ==
  /\ phase = "dispatched" /\ params.load_bit_length = 0
  /\ total_bits(params) % 128 # 0 /\ plan.load_bit_length = 64

\* C19: in every accepted plan topk is at most the number of frontier
\* entries there are when the results are written: itopk_size in single-CTA
\* mode, num_cta_per_query x itopk_size in multi-CTA mode.
CE_C19 ==
  Accepted =>
    plan.topk <= (IF plan.algo = "MULTI_CTA" THEN plan.num_cta_per_query * plan.itopk_size
                  ELSE plan.itopk_size)

\* C21: for every accepted single-CTA plan the kernel that is dispatched has
\* MAX_ITOPK >= itopk_size and MAX_CANDIDATES >= num_parents x graph_degree.
CE_C21 ==
  (phase = "dispatched" /\ plan.algo = "SINGLE_CTA") =>
    /\ launch.kernel.set
    /\ launch.kernel.MAX_ITOPK >= plan.itopk_size
    /\ launch.kernel.MAX_CANDIDATES >= plan.num_parents * plan.graph_degree

\* C22: single-CTA dispatch takes the bitonic variant exactly when
\* num_parents x graph_degree <= 256 and the radix variant exactly when it is
\* larger, and the shared-memory size of the plan includes the radix workspace
\* of the (MAX_ITOPK, BLOCK_SIZE) of the dispatched kernel exactly then.
CE_C22 ==
  (phase = "dispatched" /\ plan.algo = "SINGLE_CTA") =>
    LET pool == plan.num_parents * plan.graph_degree
        k == launch.kernel
    IN  /\ k.set
        /\ k.TOPK_BY_BITONIC_SORT = 1 <=> pool <= 256
        /\ k.TOPK_BY_BITONIC_SORT = 0 <=> pool > 256
        /\ pool > 256 =>
             /\ plan.smem_topk = [MAX_ITOPK |-> k.MAX_ITOPK, BLOCK_SIZE |-> k.BLOCK_SIZE]
             /\ launch.smem_size = plan.smem_size
        /\ pool <= 256 => plan.smem_topk.MAX_ITOPK = 0

\* C23: in an accepted plan that uses the radix top-k (num_parents x
\* graph_degree > 256) the thread block has at least 256 threads, so that
\* 512 / thread_block_size is at most 4, whether the size was given or computed.
CE_C23 ==
  (Accepted /\ plan.algo = "SINGLE_CTA" /\ plan.num_parents * plan.graph_degree > 256) =>
    /\ plan.thread_block_size >= min_block_size_radix
    /\ max_itopk \div plan.thread_block_size <= 4

-----------------------------------------------------------------------------
(* set_value_batch, thread by thread.                                      *)

\* constexpr std::uint32_t block_size = 256 of set_value_batch
set_value_block_size == 256

\* An element index that ignores the leading dimension.
set_value_batch_index_dense(tid, ld, count) == tid

\* batch_id = tid / count; elem_id = tid % count; the element elem_id + ld * batch_id
set_value_batch_index(tid, ld, count) == (tid % count) + ld * (tid \div count)

\* set_value_batch_kernel: what the thread with global id tid does
set_value_batch_kernel(dev_ptr, tid, ld, val, count, batch_size) ==
  IF tid >= count * batch_size THEN dev_ptr
  ELSE [dev_ptr EXCEPT ![set_value_batch_index(tid, ld, count)] = val]

\* grid_size = (count * batch_size + block_size - 1) / block_size
set_value_grid_size(count, batch_size) ==
  (count * batch_size + set_value_block_size - 1) \div set_value_block_size

SvCounts == {1, 2, 4, 260}
SvBatches == {1, 2}
\* ld - count
SvPads == {-1, 0, 1}
\* what the buffer held before: an id some earlier batch stored
SvStale == 0

\* The buffer is one element longer than batch_size rows of ld elements.
SvBuffer(ld, batch_size) == [a \in 0 .. ld * batch_size |-> SvStale]

InitBatch ==
  /\ phase = "set_value"
  /\ params = <<>> /\ plan = <<>> /\ call = <<>> /\ hashmap = <<>> /\ grp = <<>>
  /\ inter = <<>> /\ out = <<>> /\ num_executed = <<>> /\ launch = NoLaunch
  /\ htab = <<>> /\ hthr = <<>> /\ hlog = <<>> /\ hbits = 0 /\ ivf = <<>>
  /\ blk = <<>>
  /\ \E count \in SvCounts, batch_size \in SvBatches, pad \in SvPads :
       sv = [ld |-> count + pad, count |-> count, batch_size |-> batch_size,
             val |-> MaxU32, tid |-> 0, launched |-> FALSE,
             dev_ptr |-> SvBuffer(count + pad, batch_size),
             writes |-> [a \in 0 .. (count + pad) * batch_size |-> 0]]

SvThreads == set_value_grid_size(sv.count, sv.batch_size) * set_value_block_size

\* The next thread of the grid runs.
SvThread ==
  /\ phase = "set_value"
  /\ sv.tid < SvThreads
  /\ LET a == set_value_batch_index(sv.tid, sv.ld, sv.count)
         active == sv.tid < sv.count * sv.batch_size
     IN  sv' = [sv EXCEPT !.dev_ptr = set_value_batch_kernel(@, sv.tid, sv.ld, sv.val,
                                                             sv.count, sv.batch_size),
                          !.tid = @ + 1,
                          !.writes = [b \in DOMAIN @ |->
                                        IF active /\ b = a THEN @[b] + 1 ELSE @[b]]]
  /\ UNCHANGED <<phase, params, plan, call, hashmap, grp, inter, out, num_executed, launch, htab, hthr, hlog, hbits, ivf, blk>>

\* The traversal kernel is launched on the same stream: after the last
\* thread of the initialisation.
SvLaunch ==
  /\ phase = "set_value"
  /\ sv.tid = SvThreads
  /\ ~sv.launched
  /\ sv' = [sv EXCEPT !.launched = TRUE]
  /\ UNCHANGED <<phase, params, plan, call, hashmap, grp, inter, out, num_executed, launch, htab, hthr, hlog, hbits, ivf, blk>>

NextBatch == SvThread \/ SvLaunch

SpecBatch == InitBatch /\ [][NextBatch]_vars

SvTargets == {e + sv.ld * b : e \in 0 .. sv.count - 1, b \in 0 .. sv.batch_size - 1}

\* C20: set_value_batch sets ptr[e + ld * b] = val for every b < batch_size
\* and e < count and no other element, each element by one thread when
\* ld >= count; all of it before the kernel launched after it runs.
T_C20 ==
  /\ sv.launched => sv.tid = SvThreads
  /\ sv.tid = SvThreads =>
       /\ \A a \in DOMAIN sv.dev_ptr :
            sv.dev_ptr[a] = (IF a \in SvTargets THEN sv.val ELSE SvStale)
       /\ \A a \in DOMAIN sv.writes : sv.writes[a] > 0 <=> a \in SvTargets
       /\ sv.ld >= sv.count => \A a \in DOMAIN sv.writes : sv.writes[a] <= 1
       /\ sv.dev_ptr = set_value_batch(SvBuffer(sv.ld, sv.batch_size), sv.ld, sv.val,
                                       sv.count, sv.batch_size)

\* two tables of 260 slots, rows one element apart, reset by three blocks
W_C20 ==
  /\ sv.launched
  /\ sv.batch_size = 2 /\ sv.ld > sv.count
  /\ set_value_grid_size(sv.count, sv.batch_size) > 2

-----------------------------------------------------------------------------
(* The IVF-flat index (raft::spatial::knn::ivf_flat::detail): lists of     *)
(* records, extend, resize_list, serialize and deserialize.                *)

\* calls of extend and resize_list in one run
IvfMaxCalls == 2
\* rows of one batch given to extend
IvfMaxRows == 2

\* raft::neighbors::ivf_flat::kIndexGroupSize: vectors of one interleaved group
kIndexGroupSize == 32
\* the index of a slot of a list that holds no record
kInvalidRecord == MaxU32
IvfDims == {2, 4}
IvfNLists == 2
IvfLabels == 0 .. IvfNLists - 1
\* what freshly allocated device memory can hold
IvfGarbage == {0, 7}

\* index::calculate_veclen: 16 bytes of float elements when dim allows it
calculate_veclen(dim) == IF dim % 4 = 0 THEN 4 ELSE 1

\* list_data(handle, n_rows, dim): room for n_rows records, rounded up to
\* whole interleaved groups; the data is not initialised, the indices are invalid
list_capacity(n_rows) ==
  ((n_rows + kIndexGroupSize - 1) \div kIndexGroupSize) * kIndexGroupSize

list_data(n_rows, dim, garbage) ==
  [exists |-> TRUE, size |-> n_rows, capacity |-> list_capacity(n_rows),
   data |-> [a \in 0 .. list_capacity(n_rows) * dim - 1 |-> garbage],
   indices |-> [k \in 0 .. list_capacity(n_rows) - 1 |-> kInvalidRecord]]

\* an empty std::shared_ptr<list_data>
NullList == [exists |-> FALSE, size |-> 0, capacity |-> 0, data |-> <<>>, indices |-> <<>>]

\* a list that is kept whenever the new size fits, whatever its size field says
skip_resize_fits(orig_list, new_used_size, old_used_size) ==
  orig_list.exists /\ new_used_size <= orig_list.capacity

\* the skip_resize flag of resize_list: the list exists, the new size fits, and
\* the list does not grow or orig_list->size.compare_exchange_strong(
\* old_used_size, new_used_size) finds the size no-one else has raised
skip_resize(orig_list, new_used_size, old_used_size) ==
  LET fits == orig_list.exists /\ new_used_size <= orig_list.capacity
      exchanged == orig_list.size = old_used_size
  IN  fits /\ (new_used_size <= old_used_size \/ exchanged)

\* resize_list(handle, orig_list, new_used_size, old_used_size, dim): the list
\* orig_list refers to afterwards
resize_list(orig_list, new_used_size, old_used_size, dim, garbage) ==
  LET skip == skip_resize(orig_list, new_used_size, old_used_size)
      old_size == IF orig_list.exists THEN old_used_size ELSE 0
      new_list == list_data(new_used_size, dim, garbage)
  IN  IF skip
      THEN IF new_used_size <= old_used_size THEN orig_list
           ELSE [orig_list EXCEPT !.size = new_used_size]
      ELSE IF old_size > 0
      THEN [new_list EXCEPT
              !.data = [a \in DOMAIN @ |-> IF a < old_size * dim THEN orig_list.data[a] ELSE @[a]],
              !.indices = [k \in DOMAIN @ |-> IF k < old_size THEN orig_list.indices[k] ELSE @[k]]]
      ELSE new_list

\* a placement that steps through a group record by record, not by veclen
interleaved_index_unit(inlist_id, d, dim, veclen) ==
  LET group_offset == (inlist_id \div kIndexGroupSize) * kIndexGroupSize
      ingroup_id == inlist_id % kIndexGroupSize
      l == d - (d % veclen)
      j == d % veclen
  IN  group_offset * dim + l * kIndexGroupSize + ingroup_id + j

\* where build_index_kernel puts element d of the record at inlist_id
interleaved_index(inlist_id, d, dim, veclen) ==
  LET group_offset == (inlist_id \div kIndexGroupSize) * kIndexGroupSize
      ingroup_id == (inlist_id % kIndexGroupSize) * veclen
      l == d - (d % veclen)
      j == d % veclen
  IN  group_offset * dim + l * kIndexGroupSize + ingroup_id + j

\* the record at inlist_id of a list, as build_index_kernel lays it out
list_record(list, inlist_id, dim, veclen) ==
  [index |-> list.indices[inlist_id],
   row |-> [d \in 0 .. dim - 1 |-> list.data[interleaved_index(inlist_id, d, dim, veclen)]]]

\* row i of batch b of new vectors, and the source id given for it
new_vector(b, i, dim) == [d \in 0 .. dim - 1 |-> 100 * b + 10 * i + d + 1]
new_index(b, i) == 50 + 10 * b + i

\* a source id that loses the row number
source_id_zero(given, b, i) == IF given THEN new_index(b, i) ELSE 0

\* list_index[inlist_id] = source_ixs == nullptr ? i : source_ixs[i]
source_id(given, b, i) == IF given THEN new_index(b, i) ELSE i

\* an increment that is not seen by the other threads
atomicAdd_lost(counters, list_id) ==
  [old |-> counters[list_id], counters |-> counters]

\* atomicAdd(list_sizes_ptr + list_id, 1): the value read and the counters after
atomicAdd(counters, list_id) ==
  [old |-> counters[list_id], counters |-> [counters EXCEPT ![list_id] = @ + 1]]

\* for (l = 0; l < dim; l += veclen) for (j = 0; j < veclen; j++)
\*   list_data[l * kIndexGroupSize + ingroup_id + j] = source_vecs[l + j];
\* element by element, from element d on
RECURSIVE write_elements(_, _, _, _, _, _)
write_elements(data, inlist_id, row, d, dim, veclen) ==
  IF d >= dim THEN data
  ELSE write_elements([data EXCEPT ![interleaved_index(inlist_id, d, dim, veclen)] = row[d]],
                      inlist_id, row, d + 1, dim, veclen)

\* the element loop of one thread: row written at inlist_id of a list
write_row(list, inlist_id, row, dim, veclen) ==
  [list EXCEPT !.data = write_elements(list.data, inlist_id, row, 0, dim, veclen)]

\* build_index_kernel, the threads in the order `order`: st = [list_sizes, lists];
\* every label is a cluster that predict returned, one of the lists
RECURSIVE build_index_kernel(_, _, _, _, _, _, _)
build_index_kernel(st, order, labels, given, b, dim, veclen) ==
  IF order = <<>> \/ labels[Head(order)] \notin DOMAIN st.lists THEN st
  ELSE LET i == Head(order)
           list_id == labels[i]
           r == atomicAdd(st.list_sizes, list_id)
           inlist_id == r.old
           list == st.lists[list_id]
           indexed == [list EXCEPT !.indices[inlist_id] = source_id(given, b, i)]
           written == write_row(indexed, inlist_id, new_vector(b, i, dim), dim, veclen)
       IN  build_index_kernel([list_sizes |-> r.counters,
                               lists |-> [st.lists EXCEPT ![list_id] = written]],
                              Tail(order), labels, given, b, dim, veclen)

\* index(handle, metric, n_lists, adaptive_centers, dim): no list is
\* allocated, the centers and the list sizes are not initialised
index_ctor(metric, n_lists, adaptive_centers, dim, garbage) ==
  [exists |-> TRUE, size |-> 0, dim |-> dim, veclen |-> calculate_veclen(dim),
   n_lists |-> n_lists, metric |-> metric, adaptive_centers |-> adaptive_centers,
   centers |-> [l \in 0 .. n_lists - 1 |-> garbage],
   list_sizes |-> [l \in 0 .. n_lists - 1 |-> garbage],
   lists |-> [l \in 0 .. n_lists - 1 |-> NullList]]

\* build() with add_data_on_build = false: the list sizes are zeroed and the
\* centers trained
build(metric, n_lists, adaptive_centers, dim, garbage) ==
  [index_ctor(metric, n_lists, adaptive_centers, dim, garbage) EXCEPT
     !.centers = [l \in 0 .. n_lists - 1 |-> 10 * (l + 1)],
     !.list_sizes = [l \in 0 .. n_lists - 1 |-> 0]]

\* rows of a batch that predict() put in list l
label_count(labels, l) == Cardinality({i \in DOMAIN labels : labels[i] = l})

RECURSIVE sum_list_sizes(_, _)
sum_list_sizes(lists, l) ==
  IF l < 0 THEN 0 ELSE lists[l].size + sum_list_sizes(lists, l - 1)

\* index::recompute_internal_state: the total size is that of the lists
recompute_internal_state(index) ==
  [index EXCEPT !.size = sum_list_sizes(index.lists, index.n_lists - 1)]

\* the two RAFT_EXPECTS of extend: the one that fails, or "none"
extend_expects(index_given, indices_given, size) ==
  IF ~index_given THEN "index cannot be empty."
  ELSE IF ~(indices_given \/ size = 0)
  THEN "You must pass data indices when the index is non-empty."
  ELSE "none"

\* extend(handle, index, new_vectors, new_indices, n_rows), past its checks:
\* the index afterwards. labels is what predict() returns for the batch and
\* order the order in which the threads of build_index_kernel take their slot.
extend(index, indices_given, b, labels, order, garbage) ==
  LET old_list_sizes == index.list_sizes
      new_list_sizes == [l \in DOMAIN old_list_sizes |->
                           old_list_sizes[l] + label_count(labels, l)]
      centers == IF index.adaptive_centers
                 THEN [l \in DOMAIN index.centers |-> index.centers[l] + label_count(labels, l)]
                 ELSE index.centers
      lists == [l \in DOMAIN index.lists |->
                  resize_list(index.lists[l], new_list_sizes[l], old_list_sizes[l],
                              index.dim, garbage)]
      resized == recompute_internal_state([index EXCEPT !.lists = lists, !.centers = centers])
      st == build_index_kernel([list_sizes |-> old_list_sizes, lists |-> lists], order,
                               labels, indices_given, b, index.dim, index.veclen)
  IN  [resized EXCEPT !.list_sizes = st.list_sizes, !.lists = st.lists]

\* serialize_list(handle, os, ld, size_override)
serialize_list(ld, size_override, dim) ==
  IF ~ld.exists \/ size_override = 0 THEN [size |-> 0, data |-> <<>>, inds |-> <<>>]
  ELSE [size |-> size_override,
        data |-> [a \in 0 .. size_override * dim - 1 |-> ld.data[a]],
        inds |-> [k \in 0 .. size_override - 1 |-> ld.indices[k]]]

serialization_version == 3

\* serialize(handle, filename, index_): the file
serialize(index) ==
  [written |-> TRUE, version |-> serialization_version, size |-> index.size, dim |-> index.dim,
   n_lists |-> index.n_lists, metric |-> index.metric, veclen |-> index.veclen,
   adaptive_centers |-> index.adaptive_centers, list_sizes |-> index.list_sizes,
   centers |-> index.centers, has_norms |-> FALSE, sizes_host |-> index.list_sizes,
   lists |-> [l \in DOMAIN index.lists |->
                serialize_list(index.lists[l], index.list_sizes[l], index.dim)]]

\* deserialize(handle, filename): the index returned
deserialize(file, garbage) ==
  index_ctor(file.metric, file.n_lists, file.adaptive_centers, file.dim, garbage)

NoFile == [written |-> FALSE]
NoIndex == [exists |-> FALSE]
NoResize == [done |-> FALSE]

IvfRowCounts == 1 .. IvfMaxRows
\* the threads take their slots in row order or against it
Ascending(n) == [k \in 1 .. n |-> k - 1]
Descending(n) == [k \in 1 .. n |-> n - k]

InitIvf ==
  /\ phase = "ivf"
  /\ params = <<>> /\ plan = <<>> /\ call = <<>> /\ hashmap = <<>> /\ grp = <<>>
  /\ inter = <<>> /\ out = <<>> /\ num_executed = <<>> /\ launch = NoLaunch
  /\ htab = <<>> /\ hthr = <<>> /\ hlog = <<>> /\ hbits = 0 /\ sv = <<>>
  /\ blk = <<>>
  /\ \E dim \in IvfDims, adaptive_centers \in BOOLEAN, garbage \in IvfGarbage :
       ivf = [pc |-> "built", garbage |-> garbage, calls |-> 0,
              index |-> build("L2Expanded", IvfNLists, adaptive_centers, dim, garbage),
              before |-> NoIndex, op |-> [name |-> "build"], err |-> "none",
              file |-> NoFile, loaded |-> NoIndex, resized |-> NoResize]

\* the batches: a few rows with any labels, or as many rows as a group holds,
\* all with one label
IvfBatchRows == IvfRowCounts \cup {kIndexGroupSize}
IvfBatchLabels(n_rows) ==
  IF n_rows \in IvfRowCounts THEN [0 .. n_rows - 1 -> IvfLabels]
  ELSE {[i \in 0 .. n_rows - 1 |-> l] : l \in IvfLabels}

\* A call of extend(handle, &index, new_vectors, new_indices, n_rows), or of
\* extend(handle, nullptr, ...).
IvfExtend ==
  /\ phase = "ivf"
  /\ ivf.pc = "built"
  /\ ivf.calls < IvfMaxCalls
  /\ \E index_given \in BOOLEAN, indices_given \in BOOLEAN, n_rows \in IvfBatchRows :
     \E labels \in IvfBatchLabels(n_rows), order \in {Ascending(n_rows), Descending(n_rows)} :
       LET err == extend_expects(index_given, indices_given, ivf.index.size)
           b == ivf.calls + 1
       IN  ivf' = [ivf EXCEPT
                     !.calls = b,
                     !.before = ivf.index,
                     !.err = err,
                     !.op = [name |-> "extend", index_given |-> index_given,
                             indices_given |-> indices_given, n_rows |-> n_rows, b |-> b,
                             new_rows |-> IF err = "none"
                                          THEN [l \in IvfLabels |-> label_count(labels, l)]
                                          ELSE <<>>],
                     !.index = IF err = "none"
                               THEN extend(ivf.index, indices_given, b, labels, order, ivf.garbage)
                               ELSE ivf.index]
  /\ UNCHANGED <<phase, params, plan, call, hashmap, grp, inter, out, num_executed, launch, htab, hthr, hlog, hbits, sv, blk>>

IvfNewSizes == {0, 1, 3, 33}

\* A call of resize_list on one list of the index, as extend makes it for a
\* batch that brings the list to new_used_size records; old_used_size is the
\* number of records the list holds, or a stale 0.
IvfResize ==
  /\ phase = "ivf"
  /\ ivf.pc = "built"
  /\ \E label \in IvfLabels, new_used_size \in IvfNewSizes :
     \E old_used_size \in {0, ivf.index.lists[label].size} :
       ivf' = [ivf EXCEPT
                 !.pc = "resized",
                 !.op = [name |-> "resize_list"],
                 !.resized = [done |-> TRUE, new_used_size |-> new_used_size,
                              old_used_size |-> old_used_size,
                              orig_list |-> ivf.index.lists[label],
                              list |-> resize_list(ivf.index.lists[label], new_used_size,
                                                   old_used_size, ivf.index.dim, ivf.garbage)]]
  /\ UNCHANGED <<phase, params, plan, call, hashmap, grp, inter, out, num_executed, launch, htab, hthr, hlog, hbits, sv, blk>>

IvfSerialize ==
  /\ phase = "ivf"
  /\ ivf.pc = "built"
  /\ ivf' = [ivf EXCEPT !.pc = "saved", !.op = [name |-> "serialize"],
                        !.file = serialize(ivf.index)]
  /\ UNCHANGED <<phase, params, plan, call, hashmap, grp, inter, out, num_executed, launch, htab, hthr, hlog, hbits, sv, blk>>

IvfDeserialize ==
  /\ phase = "ivf"
  /\ ivf.pc = "saved"
  /\ ivf.file.version = serialization_version
  /\ ivf' = [ivf EXCEPT !.pc = "loaded", !.op = [name |-> "deserialize"],
                        !.loaded = deserialize(ivf.file, ivf.garbage)]
  /\ UNCHANGED <<phase, params, plan, call, hashmap, grp, inter, out, num_executed, launch, htab, hthr, hlog, hbits, sv, blk>>

NextIvf == IvfExtend \/ IvfResize \/ IvfSerialize \/ IvfDeserialize

SpecIvf == InitIvf /\ [][NextIvf]_vars

\* the records of list l of an index, by position
index_record(index, l, k) == list_record(index.lists[l], k, index.dim, index.veclen)

\* C16: deserialize applied to the file serialize wrote yields an index with
\* the same size, dim, n_lists, metric, veclen, adaptive_centers flag, centers,
\* list sizes and per-list records as the index that was written.
CE_C16 ==
  (phase = "ivf" /\ ivf.pc = "loaded") =>
    LET a == ivf.index
        r == ivf.loaded
    IN  /\ r.exists
        /\ r.size = a.size /\ r.dim = a.dim /\ r.n_lists = a.n_lists
        /\ r.metric = a.metric /\ r.veclen = a.veclen
        /\ r.adaptive_centers = a.adaptive_centers
        /\ r.centers = a.centers
        /\ r.list_sizes = a.list_sizes
        /\ \A l \in 0 .. a.n_lists - 1 : \A k \in 0 .. a.list_sizes[l] - 1 :
             /\ r.lists[l].exists
             /\ k < r.lists[l].capacity
             /\ index_record(r, l, k) = index_record(a, l, k)

\* C17: after resize_list the list is non-null, holds at least new_used_size
\* records, and its first old_used_size records are those it held before; a
\* list that existed, had the capacity and is not asked to grow is left as it
\* was, and the stored size is never lowered.
CE_C17 ==
  (phase = "ivf" /\ ivf.pc = "resized") =>
    LET r == ivf.resized
        dim == ivf.index.dim
        veclen == ivf.index.veclen
    IN  /\ r.list.exists
        /\ r.list.capacity >= r.new_used_size
        /\ \A k \in 0 .. r.old_used_size - 1 :
             list_record(r.list, k, dim, veclen) = list_record(r.orig_list, k, dim, veclen)
        /\ (r.orig_list.exists /\ r.orig_list.capacity >= r.new_used_size
              /\ r.new_used_size <= r.old_used_size) => r.list = r.orig_list
        /\ r.orig_list.exists => r.list.size >= r.orig_list.size

\* C18: extend fails and leaves the index as it was when the index pointer is
\* null, or when new_indices is null and the index holds records; with
\* new_indices null on an empty index it succeeds and row i is recorded under
\* source id i.
T_C18 ==
  (phase = "ivf" /\ ivf.op.name = "extend") =>
    LET op == ivf.op
        failed == ivf.err # "none" /\ ivf.index = ivf.before
    IN  /\ ~op.index_given => failed
        /\ (op.index_given /\ ~op.indices_given /\ ivf.before.size # 0) => failed
        /\ (op.index_given /\ ~op.indices_given /\ ivf.before.size = 0) =>
             /\ ivf.err = "none"
             /\ ivf.index.size = op.n_rows
             /\ \A i \in 0 .. op.n_rows - 1 :
                  \E l \in 0 .. ivf.index.n_lists - 1 :
                  \E k \in 0 .. ivf.index.list_sizes[l] - 1 :
                    index_record(ivf.index, l, k) =
                      [index |-> i, row |-> new_vector(op.b, i, ivf.index.dim)]

\* an extend without indices refused on an index whose second record an
\* earlier extend without indices stored under source id 1
W_C18 ==
  /\ phase = "ivf" /\ ivf.op.name = "extend"
  /\ ivf.op.index_given /\ ~ivf.op.indices_given
  /\ ivf.before.size # 0
  /\ ivf.err # "none" /\ ivf.index = ivf.before
  /\ \E l \in 0 .. ivf.index.n_lists - 1 : \E k \in 0 .. ivf.index.list_sizes[l] - 1 :
       index_record(ivf.index, l, k).index = 1

-----------------------------------------------------------------------------
(* The block size loops of set_params, one iteration at a time and in      *)
(* uint32_t arithmetic. A uint32_t is kept as its two 16-bit halves.       *)

Half == 2 ^ 16

u32(n) == [hi |-> (n \div Half) % Half, lo |-> n % Half]

\* a * c for a factor c < 2^15, modulo 2^32
u32_mul(a, c) ==
  [hi |-> (a.hi * c + (a.lo * c) \div Half) % Half, lo |-> (a.lo * c) % Half]

\* a + b modulo 2^32
u32_add(a, b) ==
  [hi |-> (a.hi + b.hi + (a.lo + b.lo) \div Half) % Half, lo |-> (a.lo + b.lo) % Half]

u32_gt(a, b) == a.hi > b.hi \/ (a.hi = b.hi /\ a.lo > b.lo)

u32_lt(a, b) == u32_gt(b, a)

\* the value of a uint32_t below 2^31
u32_int(a) == a.hi * Half + a.lo

\* the shared memory size of the single-CTA plan while the block size is
\* looked for (search_single_cta.cuh:245-259)
single_cta_tentative_smem_size(p) ==
  LET num_itopk_candidates == p.num_parents * p.graph_degree
      result_buffer_size_32 == roundUp32(p.itopk_size + num_itopk_candidates)
      base_smem_size ==
        u32_add(u32(sizeof_u32 * p.max_dim),
        u32_add(u32_mul(u32(result_buffer_size_32), sizeof_u32 + sizeof_u32),
        u32_add(u32(sizeof_u32 * hashmap_get_size(p.small_hash_bitlen)),
        u32_add(u32(sizeof_u32 * p.num_parents),
        u32_add(u32(sizeof_u32 * topk_ws_size), u32(sizeof_u32))))))
      MAX_ITOPK == IF p.itopk_size <= 256 THEN 256 ELSE 512
  IN  IF num_itopk_candidates > 256
      THEN u32_add(base_smem_size,
                   u32(topk_by_radix_sort_smem_size(MAX_ITOPK, max_block_size) * sizeof_u32))
      ELSE base_smem_size

\* the shared memory size of the multi-CTA plan (part_001:210-212)
multi_cta_smem_size(p) ==
  LET result_buffer_size_32 ==
        roundUp32(multi_cta_itopk_size + multi_cta_num_parents * p.graph_degree)
  IN  u32_add(u32(sizeof_u32 * p.max_dim),
      u32_add(u32_mul(u32(result_buffer_size_32), sizeof_u32 + sizeof_u32),
      u32_add(u32(sizeof_u32 * multi_cta_num_parents), u32(sizeof_u32))))

BlockDegrees == {2, 32, 192, 512, 1048576, 134217728}
BlockItopkSizes == {64, 512}
BlockMaxQueries == {1, 100}

BlockParams ==
  [algo : Algos, itopk_size : BlockItopkSizes, num_parents : NumParents,
   graph_degree : BlockDegrees, max_queries : BlockMaxQueries,
   small_hash_bitlen : {0}, team_size : {8}, max_dim : {128}, sm_count : {80}]

\* set_params is entered with thread_block_size == 0; in multi-CTA mode the
\* result buffer has passed its check.
InitBlock ==
  /\ phase = "block_size"
  /\ params = <<>> /\ plan = <<>> /\ call = <<>> /\ hashmap = <<>> /\ grp = <<>>
  /\ inter = <<>> /\ out = <<>> /\ num_executed = <<>> /\ launch = NoLaunch
  /\ htab = <<>> /\ hthr = <<>> /\ hlog = <<>> /\ hbits = 0 /\ sv = <<>> /\ ivf = <<>>
  /\ \E p \in BlockParams :
       /\ p.algo = "MULTI_CTA" =>
            expects_result_buffer_size(
              roundUp32(multi_cta_itopk_size + multi_cta_num_parents * p.graph_degree))
       /\ p.algo = "SINGLE_CTA" => expects_itopk_size(p.itopk_size)
       /\ blk = [pc |-> "begin", p |-> p, block_size |-> u32(0),
                 smem_size |-> IF p.algo = "MULTI_CTA" THEN multi_cta_smem_size(p)
                               ELSE single_cta_tentative_smem_size(p),
                 num_parents |-> IF p.algo = "MULTI_CTA" THEN multi_cta_num_parents
                                 ELSE p.num_parents,
                 error |-> "none"]

BlockUnchanged ==
  UNCHANGED <<phase, params, plan, call, hashmap, grp, inter, out, num_executed, launch, htab, hthr, hlog, hbits, sv, ivf>>

\* block_size = min_block_size, or min_block_size_radix when the radix top-k
\* is used
BlockBegin ==
  /\ phase = "block_size" /\ blk.pc = "begin"
  /\ LET radix == blk.p.algo = "SINGLE_CTA" /\ blk.p.num_parents * blk.p.graph_degree > 256
     IN  blk' = [blk EXCEPT !.pc = IF radix THEN "radix" ELSE "smem",
                            !.block_size = IF radix THEN u32(min_block_size_radix)
                                           ELSE u32(min_block_size)]
  /\ BlockUnchanged

\* while ((block_size < max_block_size) && (max_itopk / block_size > 4)) block_size *= 2;
BlockRadix ==
  /\ phase = "block_size" /\ blk.pc = "radix"
  /\ IF /\ u32_lt(blk.block_size, u32(max_block_size))
        /\ max_itopk \div u32_int(blk.block_size) > 4
     THEN blk' = [blk EXCEPT !.block_size = u32_mul(@, 2)]
     ELSE blk' = [blk EXCEPT !.pc = "smem"]
  /\ BlockUnchanged

\* while (smem_size > ulimit_smem_size_cta32 / 32 * block_size) block_size *= 2;
BlockSmem ==
  /\ phase = "block_size" /\ blk.pc = "smem"
  /\ IF u32_gt(blk.smem_size, u32_mul(blk.block_size, ulimit_smem_size_cta32 \div 32))
     THEN blk' = [blk EXCEPT !.block_size = u32_mul(@, 2)]
     ELSE blk' = [blk EXCEPT !.pc = "occupancy"]
  /\ BlockUnchanged

\* while (block_size < max_block_size && work >= block_size * 2 &&
\*        num_cta <= (1024 / (block_size * 2)) * multiProcessorCount) block_size *= 2;
BlockOccupancy ==
  /\ phase = "block_size" /\ blk.pc = "occupancy"
  /\ LET num_cta == IF blk.p.algo = "MULTI_CTA"
                    THEN Max(blk.num_parents, multi_cta_itopk_size \div 32) * blk.p.max_queries
                    ELSE blk.p.max_queries
     IN  IF /\ u32_lt(blk.block_size, u32(max_block_size))
            /\ blk.p.graph_degree * blk.num_parents * blk.p.team_size
                 >= u32_int(blk.block_size) * 2
            /\ num_cta <= (1024 \div (u32_int(blk.block_size) * 2)) * blk.p.sm_count
         THEN blk' = [blk EXCEPT !.block_size = u32_mul(@, 2)]
         ELSE blk' = [blk EXCEPT !.pc = "expects"]
  /\ BlockUnchanged

\* the two RAFT_EXPECTS on block_size, then thread_block_size = block_size
BlockExpects ==
  /\ phase = "block_size" /\ blk.pc = "expects"
  /\ LET error == IF u32_lt(blk.block_size, u32(min_block_size)) THEN "block_size_min"
                  ELSE IF u32_gt(blk.block_size, u32(max_block_size)) THEN "block_size_max"
                  ELSE "none"
     IN  blk' = [blk EXCEPT !.pc = IF error = "none" THEN "resolved" ELSE "rejected",
                            !.error = error]
  /\ BlockUnchanged

NextBlock == BlockBegin \/ BlockRadix \/ BlockSmem \/ BlockOccupancy \/ BlockExpects

SpecBlock == InitBlock /\ [][NextBlock]_vars /\ WF_vars(NextBlock)

BlockResolved == phase = "block_size" /\ blk.pc = "resolved"
BlockEnded == phase = "block_size" /\ blk.pc \in {"resolved", "rejected"}

\* C24: with thread_block_size == 0 the search for the block size ends for
\* every input of both variants, also when the doubled block size or
\* 128 x block_size wraps around 2^32, and a block size that is accepted is
\* one of 64, 128, 256, 512, 1024.
CE_C24 ==
  /\ <>BlockEnded
  /\ [](BlockResolved => u32_int(blk.block_size) \in {64, 128, 256, 512, 1024})

-----------------------------------------------------------------------------
(* Progress of the traversal: the groups of a launched kernel are          *)
(* scheduled until they exit.                                              *)

GroupStep ==
  \/ \E id \in DOMAIN grp : KernelInit(id[1], id[2])
  \/ \E id \in DOMAIN grp : PickParents(id[1], id[2])
  \/ \E id \in DOMAIN grp : \E k \in 1 .. Len(grp[id].cand) : Visit(id[1], id[2], k)
  \/ \E id \in DOMAIN grp : Merge(id[1], id[2])
  \/ \E id \in DOMAIN grp : Terminate(id[1], id[2])

SpecLive == Init /\ [][Next]_vars /\ WF_vars(GroupStep)

\* every group of the call has passed Terminate and recorded its iterations
TraversalsEnded ==
  /\ phase \in {"launched", "done", "fault"}
  /\ \A id \in DOMAIN grp : grp[id].pc = "exit" /\ num_executed[id[1]] >= 0

-----------------------------------------------------------------------------
(* build_index_kernel, thread by thread: thread i records row i.           *)

KernelIdle == [pc |-> "atomicAdd", inlist_id |-> 0]

\* The launch of build_index_kernel by extend for batch b: the index was
\* built and holds at most one batch of one row; the lists were resized and
\* the counters reset to the old sizes.
InitKernel ==
  /\ phase = "build_index_kernel"
  /\ params = <<>> /\ plan = <<>> /\ call = <<>> /\ hashmap = <<>> /\ grp = <<>>
  /\ inter = <<>> /\ out = <<>> /\ num_executed = <<>> /\ launch = NoLaunch
  /\ htab = <<>> /\ hthr = <<>> /\ hlog = <<>> /\ hbits = 0 /\ sv = <<>> /\ blk = <<>>
  /\ \E dim \in IvfDims, garbage \in IvfGarbage, first \in {<<>>} \cup [{0} -> IvfLabels],
        n_rows \in IvfRowCounts, given \in BOOLEAN :
     \E labels \in [0 .. n_rows - 1 -> IvfLabels] :
       LET built == build("L2Expanded", IvfNLists, FALSE, dim, garbage)
           index == IF first = <<>> THEN built
                    ELSE extend(built, TRUE, 1, first, Ascending(1), garbage)
           b == IF first = <<>> THEN 1 ELSE 2
           old_list_sizes == index.list_sizes
           lists == [l \in DOMAIN index.lists |->
                       resize_list(index.lists[l], old_list_sizes[l] + label_count(labels, l),
                                   old_list_sizes[l], dim, garbage)]
       IN  /\ (given \/ index.size = 0)
           /\ ivf = [dim |-> dim, veclen |-> index.veclen, b |-> b, given |-> given,
                     n_rows |-> n_rows, labels |-> labels,
                     old_list_sizes |-> old_list_sizes, list_sizes |-> old_list_sizes,
                     lists |-> lists,
                     thr |-> [i \in 0 .. n_rows - 1 |-> KernelIdle],
                     written |-> [l \in IvfLabels |-> <<>>]]

KernelUnchanged ==
  UNCHANGED <<phase, params, plan, call, hashmap, grp, inter, out, num_executed, launch, htab, hthr, hlog, hbits, sv, blk>>

\* auto inlist_id = atomicAdd(list_sizes_ptr + list_id, 1);
KernelAtomicAdd(i) ==
  /\ phase = "build_index_kernel"
  /\ ivf.thr[i].pc = "atomicAdd"
  /\ LET r == atomicAdd(ivf.list_sizes, ivf.labels[i])
     IN  ivf' = [ivf EXCEPT !.list_sizes = r.counters,
                            !.thr[i] = [pc |-> "list_index", inlist_id |-> r.old]]
  /\ KernelUnchanged

\* list_index[inlist_id] = source_ixs == nullptr ? i : source_ixs[i];
KernelWriteIndex(i) ==
  /\ phase = "build_index_kernel"
  /\ ivf.thr[i].pc = "list_index"
  /\ LET list_id == ivf.labels[i]
         inlist_id == ivf.thr[i].inlist_id
     IN  ivf' = [ivf EXCEPT
                   !.lists[list_id].indices[inlist_id] = source_id(ivf.given, ivf.b, i),
                   !.written[list_id] = Append(@, [pos |-> inlist_id, row |-> i]),
                   !.thr[i].pc = "list_data"]
  /\ KernelUnchanged

\* the interleaving loop over the elements of the row
KernelWriteData(i) ==
  /\ phase = "build_index_kernel"
  /\ ivf.thr[i].pc = "list_data"
  /\ LET list_id == ivf.labels[i]
     IN  ivf' = [ivf EXCEPT
                   !.lists[list_id] = write_row(@, ivf.thr[i].inlist_id,
                                                new_vector(ivf.b, i, ivf.dim),
                                                ivf.dim, ivf.veclen),
                   !.thr[i].pc = "done"]
  /\ KernelUnchanged

NextKernel ==
  \/ \E i \in DOMAIN ivf.thr : KernelAtomicAdd(i)
  \/ \E i \in DOMAIN ivf.thr : KernelWriteIndex(i)
  \/ \E i \in DOMAIN ivf.thr : KernelWriteData(i)

SpecKernel == InitKernel /\ [][NextKernel]_vars

KernelDone == phase = "build_index_kernel" /\ \A i \in DOMAIN ivf.thr : ivf.thr[i].pc = "done"

-----------------------------------------------------------------------------
(* extend as a whole.                                                      *)

Extended == phase = "ivf" /\ ivf.op.name = "extend" /\ ivf.err = "none"

\* C27: after extend every new record sits below the capacity of its list,
\* list_sizes[l] is the old size plus the new rows of label l, with and
\* without adaptive centers, and the records the index held keep their
\* positions and contents.
CE_C27 ==
  Extended =>
    \A l \in IvfLabels :
      /\ ivf.index.list_sizes[l] = ivf.before.list_sizes[l] + ivf.op.new_rows[l]
      /\ ivf.index.list_sizes[l] <= ivf.index.lists[l].capacity
      /\ \A k \in 0 .. ivf.before.list_sizes[l] - 1 :
           index_record(ivf.index, l, k) = index_record(ivf.before, l, k)

-----------------------------------------------------------------------------
(* extend on a const index: the extended index is a clone that shares the  *)
(* lists of the original. The lists live in a heap and an index holds      *)
(* their addresses; address 0 is the empty shared_ptr.                     *)

\* the index with its lists read from the heap
deref(index, heap) ==
  [index EXCEPT !.lists = [l \in DOMAIN @ |-> IF @[l] = 0 THEN NullList ELSE heap[@[l]]]]

\* clone(handle, &orig_index): the list sizes and the centers are copied, the
\* lists are shared, and the internal state is recomputed from the lists
clone(orig_index, heap) ==
  [orig_index EXCEPT !.size = recompute_internal_state(deref(orig_index, heap)).size]

\* the lists of an extended index put back in the heap, from list l on: a list
\* resize_list kept is written where it was, a list it allocated gets an
\* address of its own. st = [heap, lists]
RECURSIVE store_lists(_, _, _, _)
store_lists(st, extended, kept, l) ==
  IF l \notin DOMAIN extended THEN st
  ELSE IF kept[l]
  THEN store_lists([st EXCEPT !.heap[st.lists[l]] = extended[l]], extended, kept, l + 1)
  ELSE store_lists([heap |-> Append(st.heap, extended[l]),
                    lists |-> [st.lists EXCEPT ![l] = Len(st.heap) + 1]],
                   extended, kept, l + 1)

\* the batches of this scenario: rows of one label
ShareBatchLabels(n_rows) == {[i \in 0 .. n_rows - 1 |-> l] : l \in IvfLabels}

NoExtension == [done |-> FALSE]

\* the original: as built, or extended by one batch of rows of one label; no
\* other index holds its lists
InitShare ==
  /\ phase = "clone"
  /\ params = <<>> /\ plan = <<>> /\ call = <<>> /\ hashmap = <<>> /\ grp = <<>>
  /\ inter = <<>> /\ out = <<>> /\ num_executed = <<>> /\ launch = NoLaunch
  /\ htab = <<>> /\ hthr = <<>> /\ hlog = <<>> /\ hbits = 0 /\ sv = <<>> /\ blk = <<>>
  /\ \E dim \in IvfDims, adaptive_centers \in BOOLEAN, garbage \in IvfGarbage,
        n_rows \in 0 .. IvfMaxRows :
     \E labels \in ShareBatchLabels(n_rows) :
       LET built == build("L2Expanded", IvfNLists, adaptive_centers, dim, garbage)
           index == IF n_rows = 0 THEN built
                    ELSE extend(built, TRUE, 0, labels, Ascending(n_rows), garbage)
           st == store_lists([heap |-> <<>>, lists |-> [l \in IvfLabels |-> 0]], index.lists,
                             [l \in IvfLabels |-> FALSE], 0)
       IN  ivf = [pc |-> "original", garbage |-> garbage,
                  heap |-> IF n_rows = 0 THEN <<>> ELSE st.heap,
                  orig_index |-> [index EXCEPT !.lists = IF n_rows = 0
                                                        THEN [l \in IvfLabels |-> 0]
                                                        ELSE st.lists],
                  before |-> index,
                  first |-> NoExtension, second |-> NoExtension]

\* extend(handle, orig_index, new_vectors, new_indices, n_rows) on the const
\* original: the heap afterwards and what the call returned, the index as
\* `index` with the addresses of its lists and as `returned` with the lists
\* as they were at the return. b numbers the batch.
extend_const(orig_index, heap, indices_given, b, n_rows, labels, garbage) ==
  LET ext_index == clone(orig_index, heap)
      err == extend_expects(TRUE, indices_given, ext_index.size)
      shared == deref(ext_index, heap)
      kept == [l \in IvfLabels |->
                 skip_resize(shared.lists[l],
                             shared.list_sizes[l] + label_count(labels, l),
                             shared.list_sizes[l])]
      extended == extend(shared, indices_given, b, labels, Ascending(n_rows), garbage)
      st == store_lists([heap |-> heap, lists |-> ext_index.lists], extended.lists, kept, 0)
  IN  IF err # "none"
      THEN [heap |-> heap, result |-> [done |-> TRUE, err |-> err]]
      ELSE [heap |-> st.heap,
            result |-> [done |-> TRUE, err |-> err,
                        index |-> [extended EXCEPT !.lists = st.lists],
                        old_list_sizes |-> orig_index.list_sizes,
                        new_rows |-> [l \in IvfLabels |-> label_count(labels, l)],
                        kept |-> kept,
                        returned |-> extended]]

ShareUnchanged ==
  UNCHANGED <<phase, params, plan, call, hashmap, grp, inter, out, num_executed, launch, htab, hthr, hlog, hbits, sv, blk>>

\* auto first = extend(handle, orig_index, ...)
ShareFirst ==
  /\ phase = "clone"
  /\ ivf.pc = "original"
  /\ \E indices_given \in BOOLEAN, n_rows \in IvfBatchRows :
     \E labels \in ShareBatchLabels(n_rows) :
       LET r == extend_const(ivf.orig_index, ivf.heap, indices_given, 1, n_rows, labels, ivf.garbage)
       IN  ivf' = [ivf EXCEPT !.pc = "first", !.heap = r.heap,
                              !.first = r.result]
  /\ ShareUnchanged

\* auto second = extend(handle, orig_index, ...), from the same original
ShareSecond ==
  /\ phase = "clone"
  /\ ivf.pc = "first"
  /\ \E indices_given \in BOOLEAN, n_rows \in IvfBatchRows :
     \E labels \in ShareBatchLabels(n_rows) :
       LET r == extend_const(ivf.orig_index, ivf.heap, indices_given, 2, n_rows, labels, ivf.garbage)
       IN  ivf' = [ivf EXCEPT !.pc = "second", !.heap = r.heap,
                              !.second = r.result]
  /\ ShareUnchanged

NextShare ==
  \/ ShareFirst
  \/ ShareSecond

SpecShare == InitShare /\ [][NextShare]_vars

\* the positions of list l an extension wrote its rows to
written_positions(ext, l) == ext.old_list_sizes[l] .. ext.index.list_sizes[l] - 1

\* C28: extend on a const index leaves the original as it was: its list sizes
\* and the first list_sizes[l] records of each list are those from before the
\* call, also when the extended index shares a list with it. After a second
\* extension of the same original the records the first one wrote are still
\* what it returned them as, and a list the first extension grew in place is
\* not the list the second one writes its rows to: the second has a list of
\* its own there.
T_C28 ==
  phase = "clone" =>
    LET orig == deref(ivf.orig_index, ivf.heap)
    IN  /\ orig.list_sizes = ivf.before.list_sizes
        /\ \A l \in IvfLabels : \A k \in 0 .. orig.list_sizes[l] - 1 :
             index_record(orig, l, k) = index_record(ivf.before, l, k)
        /\ (ivf.first.done /\ ivf.first.err = "none") =>
             LET first == deref(ivf.first.index, ivf.heap)
             IN  \A l \in IvfLabels : \A k \in written_positions(ivf.first, l) :
                   index_record(first, l, k) = index_record(ivf.first.returned, l, k)
        /\ (ivf.first.done /\ ivf.first.err = "none" /\ ivf.second.done /\ ivf.second.err = "none") =>
             \A l \in IvfLabels :
               (ivf.first.kept[l] /\ ivf.first.new_rows[l] > 0 /\ ivf.second.new_rows[l] > 0) =>
                 /\ ~ivf.second.kept[l]
                 /\ ivf.second.index.lists[l] \notin {ivf.first.index.lists[l], ivf.orig_index.lists[l]}

\* two extensions of an original that holds a record in list l, both with
\* rows for list l that fit its capacity: the first one shares the list
W_C28 ==
  /\ phase = "clone" /\ ivf.pc = "second"
  /\ ivf.first.err = "none" /\ ivf.second.err = "none"
  /\ \E l \in IvfLabels :
       /\ ivf.before.list_sizes[l] > 0
       /\ ivf.first.new_rows[l] > 0 /\ ivf.second.new_rows[l] > 0
       /\ ivf.first.index.lists[l] = ivf.orig_index.lists[l]
       /\ ivf.second.index.list_sizes[l] <= deref(ivf.orig_index, ivf.heap).lists[l].capacity

-----------------------------------------------------------------------------
(* The interleaved layout of a list: records written one after another at  *)
(* chosen positions of one list.                                           *)

\* records written to the list in one run
LayoutWrites == 2
\* (dim, veclen) with dim a multiple of veclen, as index::calculate_veclen
\* yields them for the element types
LayoutDims == {1, 2, 3, 4, 6, 8}
LayoutVeclens == {1, 2, 4}
\* positions at the borders of the interleaved groups
LayoutPositions == {0, 1, 31, 32, 33, 63, 64}
\* the list holds three groups
LayoutCapacity == 3 * kIndexGroupSize

InitLayout ==
  /\ phase = "layout"
  /\ params = <<>> /\ plan = <<>> /\ call = <<>> /\ hashmap = <<>> /\ grp = <<>>
  /\ inter = <<>> /\ out = <<>> /\ num_executed = <<>> /\ launch = NoLaunch
  /\ htab = <<>> /\ hthr = <<>> /\ hlog = <<>> /\ hbits = 0 /\ sv = <<>> /\ blk = <<>>
  /\ \E dim \in LayoutDims, veclen \in LayoutVeclens, garbage \in IvfGarbage :
       /\ dim % veclen = 0
       /\ ivf = [dim |-> dim, veclen |-> veclen,
                 list |-> list_data(LayoutCapacity, dim, garbage),
                 written |-> {}]

\* one thread of build_index_kernel past its atomicAdd: the record of row
\* inlist_id is written at inlist_id
LayoutWrite(inlist_id) ==
  /\ phase = "layout"
  /\ Cardinality(ivf.written) < LayoutWrites
  /\ inlist_id \notin ivf.written
  /\ ivf' = [ivf EXCEPT
               !.list = write_row([ivf.list EXCEPT !.indices[inlist_id] = inlist_id],
                                  inlist_id, new_vector(0, inlist_id, ivf.dim),
                                  ivf.dim, ivf.veclen),
               !.written = @ \cup {inlist_id}]
  /\ UNCHANGED <<phase, params, plan, call, hashmap, grp, inter, out, num_executed, launch, htab, hthr, hlog, hbits, sv, blk>>

NextLayout ==
  \/ \E inlist_id \in LayoutPositions : LayoutWrite(inlist_id)

SpecLayout == InitLayout /\ [][NextLayout]_vars

\* roundUp(n, kIndexGroupSize)
round_up_group(n) == ((n + kIndexGroupSize - 1) \div kIndexGroupSize) * kIndexGroupSize

\* C29: with dim a multiple of veclen the place of component d of the record
\* at position p is below roundUp(p + 1, kIndexGroupSize) * dim and is the
\* place of no other component of any record of the list, and every record
\* written to the list still reads back as the row it was written from after
\* other records were written.
T_C29 ==
  (phase = "layout" /\ ivf.dim % ivf.veclen = 0) =>
    \A p \in ivf.written :
      /\ list_record(ivf.list, p, ivf.dim, ivf.veclen) =
           [index |-> p, row |-> new_vector(0, p, ivf.dim)]
      /\ \A d \in 0 .. ivf.dim - 1 :
           LET offset == interleaved_index(p, d, ivf.dim, ivf.veclen)
           IN  /\ offset >= 0
               /\ offset < round_up_group(p + 1) * ivf.dim
               /\ \A q \in 0 .. LayoutCapacity - 1 : \A e \in 0 .. ivf.dim - 1 :
                    interleaved_index(q, e, ivf.dim, ivf.veclen) = offset => (q = p /\ e = d)

\* two records written next to each other in one group, each of two vectors
\* of veclen components
W_C29 ==
  /\ phase = "layout"
  /\ ivf.veclen > 1 /\ ivf.dim > ivf.veclen
  /\ {32, 33} \subseteq ivf.written

-----------------------------------------------------------------------------
(* copy between two buffers (raft/core/mdbuffer.hpp).                      *)

\* elements of the larger buffers
CopyMaxSize == 3
CopySizes == 0 .. CopyMaxSize
\* offsets up to one past the larger buffers
CopyOffsets == 0 .. CopyMaxSize + 1
\* what a read past the end of the source can bring
CopyGarbage == {0, 7}

\* a - b in size_t, for a and b far below 2^64: the difference, or 2^64 less
\* `below` when the subtraction wraps
size_t_sub(a, b) ==
  IF a >= b THEN [wrapped |-> FALSE, value |-> a - b]
  ELSE [wrapped |-> TRUE, below |-> b - a]

\* x < size in size_t, with size far below 2^64: a wrapped difference is not
size_t_lt(x, size) == ~x.wrapped /\ x.value < size

\* if (src.size() - src_offset < size || dst.size() - dst_offset < size)
copy_out_of_bounds(dst_size, src_size, dst_offset, src_offset, size) ==
  \/ size_t_lt(size_t_sub(src_size, src_offset), size)
  \/ size_t_lt(size_t_sub(dst_size, dst_offset), size)

\* detail::buffer_copy(handle, dst + dst_offset, src + src_offset, size, ...)
\* seen from dst: an element read past the end of src is `garbage`
buffer_copy(dst, src, dst_offset, src_offset, size, garbage) ==
  [k \in DOMAIN dst |->
     IF k >= dst_offset /\ k < dst_offset + size
     THEN IF src_offset + (k - dst_offset) \in DOMAIN src
          THEN src[src_offset + (k - dst_offset)] ELSE garbage
     ELSE dst[k]]

\* buffer::size()
buffer_size(b) == Cardinality(DOMAIN b)

\* copy<true>(handle, dst, src, dst_offset, src_offset, size): what is thrown,
\* dst afterwards, and whether memory outside the two buffers was touched
copy(dst, src, dst_offset, src_offset, size, garbage) ==
  IF copy_out_of_bounds(buffer_size(dst), buffer_size(src), dst_offset, src_offset, size)
  THEN [thrown |-> "out_of_bounds", dst |-> dst, outside |-> FALSE]
  ELSE [thrown |-> "none",
        dst |-> buffer_copy(dst, src, dst_offset, src_offset, size, garbage),
        outside |-> size > 0 /\ (\/ src_offset + size > buffer_size(src)
                                 \/ dst_offset + size > buffer_size(dst))]

\* the two buffers, each element different from every other
InitCopy ==
  /\ phase = "copy"
  /\ params = <<>> /\ plan = <<>> /\ call = <<>> /\ hashmap = <<>> /\ grp = <<>>
  /\ inter = <<>> /\ out = <<>> /\ num_executed = <<>> /\ launch = NoLaunch
  /\ htab = <<>> /\ hthr = <<>> /\ hlog = <<>> /\ hbits = 0 /\ sv = <<>> /\ ivf = <<>>
  /\ \E dst_size \in CopySizes, src_size \in CopySizes :
       blk = [pc |-> "buffers",
              src |-> [k \in 0 .. src_size - 1 |-> 10 + k],
              dst |-> [k \in 0 .. dst_size - 1 |-> 20 + k],
              before |-> [k \in 0 .. dst_size - 1 |-> 20 + k],
              call |-> <<>>, thrown |-> "none", outside |-> FALSE]

CopyUnchanged ==
  UNCHANGED <<phase, params, plan, call, hashmap, grp, inter, out, num_executed, launch, htab, hthr, hlog, hbits, sv, ivf>>

\* copy<true>(handle, dst, src, dst_offset, src_offset, size)
Copy ==
  /\ phase = "copy"
  /\ blk.pc = "buffers"
  /\ \E dst_offset \in CopyOffsets, src_offset \in CopyOffsets, size \in CopySizes,
        garbage \in CopyGarbage :
       LET r == copy(blk.dst, blk.src, dst_offset, src_offset, size, garbage)
       IN  blk' = [blk EXCEPT !.pc = "copied", !.dst = r.dst, !.thrown = r.thrown,
                              !.outside = r.outside,
                              !.call = [name |-> "copy", dst_offset |-> dst_offset,
                                        src_offset |-> src_offset, size |-> size]]
  /\ CopyUnchanged

\* copy<true>(handle, dst, src): copy<true>(handle, dst, src, 0, 0, src.size())
CopyWhole ==
  /\ phase = "copy"
  /\ blk.pc = "buffers"
  /\ \E garbage \in CopyGarbage :
       LET r == copy(blk.dst, blk.src, 0, 0, buffer_size(blk.src), garbage)
       IN  blk' = [blk EXCEPT !.pc = "copied", !.dst = r.dst, !.thrown = r.thrown,
                              !.outside = r.outside,
                              !.call = [name |-> "copy of the whole buffer", dst_offset |-> 0,
                                        src_offset |-> 0, size |-> buffer_size(blk.src)]]
  /\ CopyUnchanged

NextCopy ==
  \/ Copy
  \/ CopyWhole

SpecCopy == InitCopy /\ [][NextCopy]_vars

\* C30: a copy of size elements whose source range or destination range does
\* not lie within its buffer throws out_of_bounds and changes nothing, also
\* when an offset alone is past the end of its buffer; a copy that is made
\* changes only the elements dst_offset .. dst_offset + size - 1 of dst.
CE_C30 ==
  (phase = "copy" /\ blk.pc = "copied") =>
    LET c == blk.call
    IN  /\ (\/ c.src_offset + c.size > buffer_size(blk.src)
            \/ c.dst_offset + c.size > buffer_size(blk.dst)) =>
             (blk.thrown = "out_of_bounds" /\ blk.dst = blk.before /\ ~blk.outside)
        /\ blk.thrown = "none" =>
             \A k \in DOMAIN blk.dst :
               (k < c.dst_offset \/ k >= c.dst_offset + c.size) => blk.dst[k] = blk.before[k]

====
